---------------------------- MODULE Spec2Model ----------------------------
(***************************************************************************)
(* Party-side driver of the GG18 threshold-ECDSA protocol (corelib):       *)
(* the round collector (collect_round), the five-round key generation      *)
(* driver (keygeneration / safe_keygeneration) and the nine-round signing  *)
(* driver (sign / safe_sign) of src/src/scenarios/mod.rs, with the message *)
(* taxonomy of src/src/common/messages.rs.                                 *)
(*                                                                         *)
(* A Rust Vec<T> is a TLA+ sequence; element i (0-based) of v is At(v, i). *)
(* An Option<T> is a sequence of length at most one (<<>> is None).        *)
(* The cryptographic primitives are external: a body carries who made it   *)
(* (src), whom it was made for (dst), a group/scalar value (val) and       *)
(* whether it verifies (ok). The group GE and the scalar field FE are the  *)
(* integers modulo GroupOrder with generator 1.                            *)
(***************************************************************************)
EXTENDS Integers, Sequences, FiniteSets, TLC

(***************************************************************************)
(* Bounds of the model                                                     *)
(***************************************************************************)
\* largest number of participants of a single-party session (Spec)
MaxN == 2
\* number of parties of the networked key generation (SpecNet)
NetN == 3
\* capacity used of the inbound queue
MaxInbox == 2
\* messages and channel closures that deviate from an honest transcript
MaxFaults == 1
\* empty polls per round a timely schedule lets a party see (SpecNet)
MaxIdle == 1
\* SpecRound: the participants of the session and the party observed
RoundN == 3

RoundMe == 1

\* subset signing: the keystore's number of parties and the threshold
SubsetN == 3
SubsetT == 1

\* SpecSign: the number of signers (threshold + 1) and of keystore parties
SignN == 3
SignKeystoreN == 4
\* SpecSign: the signer observed, with positions on both sides of its own
SignMe == 1

\* SpecArgs: the participants of the session and the largest party_id tried
ArgsN == 2
ArgsMaxId == 3

\* SpecLoop: participants of the session whose round-1 messages are queued
LoopN == 31

(***************************************************************************)
(* Program constants                                                       *)
(***************************************************************************)
\* let mut timeout = 3000;
CollectBudget == 3000
\* timeout -= 100; thread::sleep(100 ms)
PollQuantum == 100
\* order of the abstract group standing for curv::GE / curv::FE
GroupOrder == 7

Party == 0 .. (NetN - 1)

(***************************************************************************)
(* Vec and Option helpers                                                  *)
(***************************************************************************)
At(v, i) == v[i + 1]

InRange(v, i) == i >= 0 /\ i < Len(v)

\* Vec::remove(i): the elements after i shift left
Remove(v, i) == SubSeq(v, 1, i) \o SubSeq(v, i + 2, Len(v))

\* v with element i replaced
SetAt(v, i, x) == [v EXCEPT ![i + 1] = x]

None == <<>>

Some(x) == <<x>>

IsSome(o) == Len(o) = 1

Unwrap(o) == o[1]

\* vec.resize(n, None) on an empty vector
Resize(n) == [k \in 1 .. n |-> None]

(***************************************************************************)
(* messages.rs: MessageData, the round body types and FromData             *)
(***************************************************************************)
KeyGenTags ==
  <<"KeyGenRound1", "KeyGenRound2", "KeyGenRound3", "KeyGenRound4", "KeyGenRound5">>

SignTags ==
  <<"SignRound1", "SignRound2", "SignRound3", "SignRound4", "SignRound5",
    "SignRound6", "SignRound7", "SignRound8", "SignRound9">>

\* the type parameter T of collect_round in each round of safe_keygeneration
KeyGenTypes ==
  <<"KeyGenBroadcastMessage1", "KeyGenDecommitMessage1", "AEAD", "VerifiableSS",
    "DLogProof">>

\* the type parameter T of collect_round in each round of safe_sign
SignTypes ==
  <<"SignRound1Data", "SignRound2Data", "FE", "SignDecommitPhase1", "Phase5Com1",
    "SignRound6Data", "Phase5Com2", "Phase5DDecom2", "FE">>

Tags(proto) == IF proto = "keygen" THEN KeyGenTags ELSE SignTags

Types(proto) == IF proto = "keygen" THEN KeyGenTypes ELSE SignTypes

NRounds(proto) == Len(Tags(proto))

\* a round body: who made it, whom it is for, its value, whether it verifies
Body(src, dst, val, ok) == [src |-> src, dst |-> dst, val |-> val, ok |-> ok]

\* enum MessageData: a tag and the body the tag carries
Data(tag, body) == [tag |-> tag, body |-> body]

NoData == Data("None", Body(-1, -1, 0, FALSE))

\* impl Display for MessageData
DisplayData(d) == IF d.tag = "None" THEN <<"Message: Error">> ELSE <<"Message: ", d.tag>>

\* a faulty projection in which FE takes SignRound3 only;
\* ProjectionFollowsTagTable tells it apart
get_from_data_one_tag(T, d) ==
  IF \E r \in 1 .. Len(KeyGenTags) : KeyGenTypes[r] = T /\ KeyGenTags[r] = d.tag
    THEN Some(d.body)
  ELSE IF \E r \in 1 .. 8 : SignTypes[r] = T /\ SignTags[r] = d.tag
    THEN Some(d.body)
  ELSE None

\* impl FromData for T: get_from_data(data) -> Option<T>
get_from_data(T, d) ==
  CASE T = "KeyGenBroadcastMessage1" ->
         IF d.tag = "KeyGenRound1" THEN Some(d.body) ELSE None
    [] T = "KeyGenDecommitMessage1" ->
         IF d.tag = "KeyGenRound2" THEN Some(d.body) ELSE None
    [] T = "AEAD" -> IF d.tag = "KeyGenRound3" THEN Some(d.body) ELSE None
    [] T = "VerifiableSS" -> IF d.tag = "KeyGenRound4" THEN Some(d.body) ELSE None
    [] T = "DLogProof" -> IF d.tag = "KeyGenRound5" THEN Some(d.body) ELSE None
    [] T = "SignRound1Data" -> IF d.tag = "SignRound1" THEN Some(d.body) ELSE None
    [] T = "SignRound2Data" -> IF d.tag = "SignRound2" THEN Some(d.body) ELSE None
    [] T = "FE" ->
         IF d.tag = "SignRound3" THEN Some(d.body)
         ELSE IF d.tag = "SignRound9" THEN Some(d.body) ELSE None
    [] T = "SignDecommitPhase1" ->
         IF d.tag = "SignRound4" THEN Some(d.body) ELSE None
    [] T = "Phase5Com1" -> IF d.tag = "SignRound5" THEN Some(d.body) ELSE None
    [] T = "SignRound6Data" -> IF d.tag = "SignRound6" THEN Some(d.body) ELSE None
    [] T = "Phase5Com2" -> IF d.tag = "SignRound7" THEN Some(d.body) ELSE None
    [] T = "Phase5DDecom2" -> IF d.tag = "SignRound8" THEN Some(d.body) ELSE None
    [] OTHER -> None

(***************************************************************************)
(* messages.rs: OutgoingMessages, Errors; errors.rs: CoreErrors            *)
(***************************************************************************)
\* enum Errors, as i32
Halted == 0

CollectTimeout == 10

CollectUnexpectedData == 11

CollectDisconnected == 12

\* one event on the emitter; text is the list of pieces a format! joins
Event(ev, target, data, text, code) ==
  [ev |-> ev, sender |-> -1, target |-> target, data |-> data, text |-> text,
   code |-> code]

\* OutgoingMessages::make_send(sender, target, data)
make_send(sender, target, data) ==
  [Event("Send", target, data, <<>>, -1) EXCEPT !.sender = sender]

\* OutgoingMessages::into_incoming of a Send
into_incoming(e) == [sender |-> e.sender, target |-> e.target, data |-> e.data]

LogEv(text) == Event("Log", -1, NoData, text, -1)

CompleteEv(result) == Event("Complete", -1, result, <<>>, -1)

QuitEv == Event("Quit", -1, NoData, <<>>, -1)

ErrorEv(code) == Event("Error", -1, NoData, <<>>, code)

\* not events: where a straight-line block of the driver stops early
FailOp(kind, text) == Event("Fail", -1, NoData, <<kind>> \o text, -1)

PanicOp == Event("Panic", -1, NoData, <<>>, -1)

IsEmit(op) == op.ev \notin {"Fail", "Panic"}

\* #[display(fmt = ...)] of CoreErrors
DisplayError(kind, text) ==
  CASE kind = "InvalidData" -> <<"Invalid data exception (">> \o text \o <<")">>
    [] kind = "TransportIssue" -> <<"Transport issue (">> \o text \o <<")">>
    [] kind = "Timeout" -> <<"Timeout (">> \o text \o <<")">>
    [] OTHER -> <<"Execution issue (">> \o text \o <<")">>

(***************************************************************************)
(* State                                                                   *)
(***************************************************************************)
VARIABLES
  args,   \* the arguments of the session: proto, participants, threshold, signers_vec
  procs,  \* the party ids whose driver runs in this session
  drv,    \* per party: the driver's position and locals
  inbox,  \* per party: the queue behind incoming_receiver
  rx,     \* per party: whether the producer end of incoming_receiver is alive
  out,    \* per party: the events the consumer of outgoing_sender has received
  tx,     \* per party: whether the consumer end of outgoing_sender is alive
  net,    \* transport: net[s][t] of s's Sends to t have been delivered
  env     \* environment: faults used, rounds each peer has sent

vars == <<args, procs, drv, inbox, rx, out, tx, net, env>>

\* the locals of one driver
\* pc: start, collect, done, panic; round, timeout, vec: the running
\* collect_round; hist: the vectors the collect_round calls returned; mine:
\* the my_value of each call; passed: the checks that succeeded; res: how
\* safe_keygeneration / safe_sign ended
Local(pc, round, timeout, vec, hist, mine, passed, res) ==
  [pc |-> pc, round |-> round, timeout |-> timeout, vec |-> vec,
   hist |-> hist, mine |-> mine, passed |-> passed, res |-> res]

NoBody == Body(-1, -1, 0, FALSE)

InitLocal == Local("start", 0, 0, <<>>, <<>>, <<>>, <<>>, "")

\* IncomingMessages::Send { sender, target, data }
Incoming(sender, target, data) == [sender |-> sender, target |-> target, data |-> data]

(***************************************************************************)
(* scenarios/mod.rs: broadcast, sendp2p                                    *)
(***************************************************************************)
\* a faulty broadcast that sends to every peer twice; OneSendPerRoundPerTarget
\* tells it apart
broadcastTwice(participants, party_id, data) ==
  LET targets == SelectSeq([k \in 1 .. participants |-> k - 1], LAMBDA t : t # party_id)
  IN [k \in 1 .. 2 * Len(targets) |-> make_send(party_id, targets[(k + 1) \div 2], data)]

\* for p in (0..participants).filter(|p| *p != party_id) { sendp2p(..)? }
broadcast(participants, party_id, data) ==
  LET targets == SelectSeq([k \in 1 .. participants |-> k - 1], LAMBDA t : t # party_id)
  IN [k \in 1 .. Len(targets) |-> make_send(party_id, targets[k], data)]

(***************************************************************************)
(* Running a straight-line block: ops is a list of emitter sends, ended    *)
(* by an optional FailOp or PanicOp. c is the number of sends, counted     *)
(* from the block's first, that the consumer of the emitter still takes    *)
(* (a send to a dropped consumer fails, and so does every later one).      *)
(***************************************************************************)
NumEmits(ops) == Len(SelectSeq(ops, IsEmit))

Marker(ops) == IF ops # <<>> /\ ~IsEmit(ops[Len(ops)]) THEN ops[Len(ops)] ELSE LogEv(<<>>)

\* a faulty wrapper that sends the Error before the Log;
\* FailureEndsLogThenHalted tells it apart
ErrorTailReversed(kind, text) ==
  <<ErrorEv(Halted), LogEv(<<"Error: ">> \o DisplayError(kind, text))>>

\* keygeneration / sign: if let Err(e) = safe_..() { send(Log("Error: {e}")); send(Error(Halted)) }
ErrorTail(kind, text) ==
  <<LogEv(<<"Error: ">> \o DisplayError(kind, text)), ErrorEv(Halted)>>

\* a faulty runner that goes on after a failed send; SendFailureStopsDriver
\* tells it apart
RunBlockIgnoringFailedSend(ops, c) ==
  LET n == NumEmits(ops)
      r == [emitted |-> SubSeq(ops, 1, IF c < n THEN c ELSE n), status |-> "go"]
  IN IF Marker(ops).ev \in {"Fail", "Panic"} /\ c >= n
       THEN [r EXCEPT !.status = IF Marker(ops).ev = "Fail"
                                   THEN Marker(ops).text[1] ELSE "Panic"]
     ELSE r

\* a faulty runner whose consumer takes the wrapper's Log and Error after
\* having refused a send; CompleteExcludesError tells it apart
RunBlockReportingFailedSend(ops, c) ==
  LET n == NumEmits(ops)
      m == Marker(ops)
  IN IF c < n
       THEN [emitted |-> SubSeq(ops, 1, c)
                           \o ErrorTail("TransportIssue", <<"Failed to send">>),
             status |-> "TransportIssue"]
     ELSE IF m.ev = "Fail"
       THEN [emitted |-> SubSeq(ops, 1, n) \o ErrorTail(m.text[1], Tail(m.text)),
             status |-> m.text[1]]
     ELSE IF m.ev = "Panic"
       THEN [emitted |-> SubSeq(ops, 1, n), status |-> "Panic"]
     ELSE [emitted |-> SubSeq(ops, 1, n), status |-> "go"]

RunBlock(ops, c) ==
  LET n == NumEmits(ops)
      m == Marker(ops)
      k == IF c - n > 2 THEN 2 ELSE c - n
  IN IF c < n
       THEN \* sender.send(msg).map_err(|_| TransportIssue(..))?; the two sends
            \* of the error tail fail too and are ignored
            [emitted |-> SubSeq(ops, 1, c), status |-> "TransportIssue"]
     ELSE IF m.ev = "Fail"
       THEN [emitted |->
               SubSeq(ops, 1, n) \o SubSeq(ErrorTail(m.text[1], Tail(m.text)), 1, k),
             status |-> m.text[1]]
     ELSE IF m.ev = "Panic"
       THEN [emitted |-> SubSeq(ops, 1, n), status |-> "Panic"]
     ELSE [emitted |-> SubSeq(ops, 1, n), status |-> "go"]

\* whether running ops with cut c makes a send fail
Closes(ops, c) ==
  \/ c < NumEmits(ops)
  \/ Marker(ops).ev = "Fail" /\ c < NumEmits(ops) + 2

FaultsLeft == env.faults < MaxFaults

\* the cuts the consumer of p's emitter may choose
Cuts(p, ops) ==
  IF ~tx[p] THEN {0}
  ELSE {NumEmits(ops) + 2}
       \cup (IF FaultsLeft
               THEN {c \in 0 .. (NumEmits(ops) + 1) : Closes(ops, c)}
               ELSE {})

(***************************************************************************)
(* The external primitives (curv, multi_party_ecdsa, AES-GCM), abstracted  *)
(***************************************************************************)
\* the fresh scalar u_i that Keys::create draws for party p
U(p) == p + 2

\* y_i = u_i * G
Y(p) == U(p) % GroupOrder

\* acc + x on GE
GAdd(a, b) == (a + b) % GroupOrder

\* (d.y_i * party_keys.u_i).x_coor()
DhKey(y, u) == (y * u) % GroupOrder

\* aes_encrypt(key, plaintext): the share under the key
aes_encrypt(key, share) == Body(share.src, share.dst, key, share.ok)

\* aes_decrypt(key, aead) then ECScalar::from: the share, garbage under another key
aes_decrypt(key, aead) == Body(aead.src, aead.dst, 0, aead.ok /\ aead.val = key)

\* AEAD::default()
DefaultAEAD == Body(-1, -1, 0, FALSE)

\* secret_shares[k] of party p's VSS: the share of p's polynomial for index k
SecretShare(p, k) == Body(p, k, 0, TRUE)

AllIdx(v, P(_)) == \A i \in 0 .. (Len(v) - 1) : P(i)

\* phase1_verify_com_phase3_verify_correct_key_phase2_distribute: every
\* decommitment opens the commitment in the same slot, every correct-key
\* proof verifies
Phase2Verify(decom_vec, bc1_vec) ==
  /\ Len(decom_vec) = Len(bc1_vec)
  /\ AllIdx(decom_vec, LAMBDA i :
       /\ At(decom_vec, i).ok
       /\ At(bc1_vec, i).ok
       /\ At(decom_vec, i).src = At(bc1_vec, i).src)

\* phase2_verify_vss_construct_keypair_phase3_pok_dlog: share i validates
\* against scheme i for this party's index, scheme i commits to y_i
VssVerify(p, point_vec, party_shares, vss_scheme_vec) ==
  /\ Len(party_shares) = Len(vss_scheme_vec)
  /\ Len(point_vec) = Len(vss_scheme_vec)
  /\ AllIdx(vss_scheme_vec, LAMBDA i :
       /\ At(vss_scheme_vec, i).ok
       /\ At(party_shares, i).ok
       /\ At(party_shares, i).src = At(vss_scheme_vec, i).src
       /\ At(party_shares, i).dst = p
       /\ At(point_vec, i) = Y(At(vss_scheme_vec, i).src))

\* Keys::verify_dlog_proofs: proof i verifies for the point y_i
DlogVerify(dlog_proof_vec, point_vec) ==
  /\ Len(dlog_proof_vec) = Len(point_vec)
  /\ AllIdx(dlog_proof_vec, LAMBDA i :
       /\ At(dlog_proof_vec, i).ok
       /\ At(dlog_proof_vec, i).val = At(point_vec, i))

(***************************************************************************)
(* scenarios/mod.rs: safe_keygeneration, block by block                    *)
(***************************************************************************)
\* what a block hands on: the ops it runs, then either the next
\* collect_round call (round, my_value) or the return of Ok(())
ThenCollect(ops, round, my_value, check) ==
  [ops |-> ops, next |-> "collect", round |-> round, my_value |-> my_value,
   check |-> check]

ThenReturn(ops, check) ==
  [ops |-> ops, next |-> "return", round |-> 0, my_value |-> NoBody, check |-> check]

\* the block stops at a failed check or a panic
Stops(op) == [ops |-> <<op>>, next |-> "stop", round |-> 0, my_value |-> NoBody,
              check |-> <<>>]

\* let point_vec: Vec<GE> = decom_vec.iter().map(|d| d.y_i).collect();
PointVec(decom_vec) == [k \in 1 .. Len(decom_vec) |-> decom_vec[k].val]

\* a faulty key vector that keeps the own slot; SharesFollowRound3Indices
\* tells it apart
EncKeysWithOwn(p, decom_vec) ==
  [k \in 1 .. Len(decom_vec) |-> DhKey(decom_vec[k].val, U(p))]

\* decom_vec.iter().enumerate().filter(|(k, _)| *k != party_id)
\*   .map(|(_, d)| (d.y_i * party_keys.u_i).x_coor().unwrap())
EncKeys(p, decom_vec) ==
  LET others == Remove(decom_vec, p)
  IN [k \in 1 .. Len(others) |-> DhKey(others[k].val, U(p))]

RECURSIVE Fold(_, _)
\* tail.iter().fold(acc, |acc, x| acc + x)
Fold(acc, tail) == IF tail = <<>> THEN acc ELSE Fold(GAdd(acc, Head(tail)), Tail(tail))

\* a faulty fold that leaves out head[0]; YSumOfAllOpenings tells it apart
YSumTailOnly(point_vec) == Fold(0, Tail(point_vec))

\* let (head, tail) = point_vec.split_at(1); tail.iter().fold(head[0], ..)
YSum(point_vec) == Fold(point_vec[1], Tail(point_vec))

\* the cursor j of the "excluding self" vectors for the 0-based index k
Cursor(p, k) == IF k < p THEN k ELSE k - 1

\* for (k, i) in (1..=parties).enumerate() { if i != party_num_int { .. } }
Round3Sends(p, participants, enc_keys) ==
  LET targets == SelectSeq([k \in 1 .. participants |-> k - 1], LAMBDA k : k # p)
      one(k) == <<LogEv(<<"Sending round 3 to ", ToString(k)>>),
                  make_send(p, k, Data("KeyGenRound3",
                     aes_encrypt(At(enc_keys, Cursor(p, k)), SecretShare(p, k))))>>
  IN [n \in 1 .. (2 * Len(targets)) |-> one(targets[(n + 1) \div 2])[2 - (n % 2)]]

\* for i in 1..=parties { if i == party_num_int { own share } else { decrypt } }
PartyShares(p, participants, enc_keys, encrypted) ==
  [n \in 1 .. participants |->
     IF n - 1 = p THEN SecretShare(p, p)
     ELSE aes_decrypt(At(enc_keys, Cursor(p, n - 1)), At(encrypted, Cursor(p, n - 1)))]

\* the Keystore of the Complete event
Keystore(p, a, hist) ==
  [params |-> <<a.threshold, a.participants>>,
   party_shares |-> PartyShares(p, a.participants, EncKeys(p, hist[2]), Remove(hist[3], p)),
   party_index |-> p,
   vss_scheme_vec |-> hist[4],
   paillier_key_vec |-> [k \in 1 .. a.participants |-> hist[1][k]],
   y_sum |-> YSum(PointVec(hist[2]))]

\* OutgoingMessages::make_complete_keygen(&keystore)
make_complete_keygen(keystore) ==
  CompleteEv([tag |-> "KeyGen",
              body |-> [private_key |-> keystore, public_key |-> keystore.y_sum]])

\* the values this party contributes
KgBc(p) == Body(p, -1, 0, TRUE)

KgDecom(p) == Body(p, -1, Y(p), TRUE)

KgVss(p) == Body(p, -1, 0, TRUE)

KgDlog(p) == Body(p, -1, Y(p), TRUE)

\* lines 644-673: up to the first collect_round
KeygenStart(p, a) ==
  ThenCollect(
    <<LogEv(<<"Broadcasting round 1">>)>>
      \o broadcast(a.participants, p, Data("KeyGenRound1", KgBc(p)))
      \o <<LogEv(<<"Start collecting round 1">>)>>,
    1, KgBc(p), <<>>)

\* lines 680-697
KeygenAfter1(p, a, hist) ==
  ThenCollect(
    <<LogEv(<<"End of collecting round 1">>), LogEv(<<"Broadcasting round 2">>)>>
      \o broadcast(a.participants, p, Data("KeyGenRound2", KgDecom(p)))
      \o <<LogEv(<<"Collecting round 2">>)>>,
    2, KgDecom(p), <<>>)

\* lines 702-743
KeygenAfter2(p, a, hist) ==
  IF ~Phase2Verify(hist[2], hist[1])
    THEN Stops(FailOp("ExecutionIssue", <<"Invalid key at phase 2">>))
  ELSE ThenCollect(
         Round3Sends(p, a.participants, EncKeys(p, hist[2]))
           \o <<LogEv(<<"Collecting round 3">>)>>,
         3, DefaultAEAD, <<"phase2">>)

\* lines 748-782
KeygenAfter3(p, a, hist) ==
  ThenCollect(
    <<LogEv(<<"Broadcasting round 4">>)>>
      \o broadcast(a.participants, p, Data("KeyGenRound4", KgVss(p)))
      \o <<LogEv(<<"Collecting round 4">>)>>,
    4, KgVss(p), <<>>)

\* a faulty driver that goes on to round 5 without the VSS verification;
\* CompleteKeyGenOnlyAfterChecks tells it apart
KeygenAfter4Unverified(p, a, hist) ==
  ThenCollect(
    <<LogEv(<<"Broadcasting round 5">>)>>
      \o broadcast(a.participants, p, Data("KeyGenRound5", KgDlog(p)))
      \o <<LogEv(<<"Collecting round 5">>)>>,
    5, KgDlog(p), <<"vss">>)

\* lines 788-813
KeygenAfter4(p, a, hist) ==
  IF ~VssVerify(p, PointVec(hist[2]),
                PartyShares(p, a.participants, EncKeys(p, hist[2]), Remove(hist[3], p)),
                hist[4])
    THEN Stops(FailOp("ExecutionIssue", <<"Invalid vss">>))
  ELSE ThenCollect(
         <<LogEv(<<"Broadcasting round 5">>)>>
           \o broadcast(a.participants, p, Data("KeyGenRound5", KgDlog(p)))
           \o <<LogEv(<<"Collecting round 5">>)>>,
         5, KgDlog(p), <<"vss">>)

\* a faulty driver that quits before it hands over the result;
\* SuccessEndsCompleteThenQuit tells it apart
KeygenAfter5QuitFirst(p, a, hist) ==
  IF ~DlogVerify(hist[5], PointVec(hist[2]))
    THEN Stops(FailOp("ExecutionIssue", <<"Incorrect DLog proof">>))
  ELSE ThenReturn(
         <<LogEv(<<"Send result">>), LogEv(<<"Send quit">>), QuitEv,
           make_complete_keygen(Keystore(p, a, hist))>>,
         <<"dlog">>)

\* lines 819-849
KeygenAfter5(p, a, hist) ==
  IF ~DlogVerify(hist[5], PointVec(hist[2]))
    THEN Stops(FailOp("ExecutionIssue", <<"Incorrect DLog proof">>))
  ELSE ThenReturn(
         <<LogEv(<<"Send result">>), make_complete_keygen(Keystore(p, a, hist)),
           LogEv(<<"Send quit">>), QuitEv>>,
         <<"dlog">>)

KeygenAfter(p, a, hist) ==
  CASE Len(hist) = 1 -> KeygenAfter1(p, a, hist)
    [] Len(hist) = 2 -> KeygenAfter2(p, a, hist)
    [] Len(hist) = 3 -> KeygenAfter3(p, a, hist)
    [] Len(hist) = 4 -> KeygenAfter4(p, a, hist)
    [] OTHER -> KeygenAfter5(p, a, hist)

(***************************************************************************)
(* scenarios/mod.rs: safe_sign, block by block                             *)
(***************************************************************************)
\* the keystore index of the signer at position p (p itself when
\* signers_vec has no such position)
Ident(p, a) == IF InRange(a.signers_vec, p) THEN At(a.signers_vec, p) ELSE p

\* SignRound1Data { com, enc: MessageA::a(k_i, party_keys.ek) }
SgRound1(p, a) == Body(Ident(p, a), -1, 0, TRUE)

\* the positions i of 0..=threshold with i != party_num_id, in order
OtherPositions(p, a) ==
  SelectSeq([k \in 1 .. (a.threshold + 1) |-> k - 1], LAMBDA i : i # p)

\* MessageB::b(.., &paillier_key_vector[signers_vec[i]], m_a_vec[j]): the
\* pair of B-messages for the key of signers_vec[i], answering m_a
MessageB(p, a, key_index, m_a) == Body(Ident(p, a), key_index, m_a.src, m_a.ok)

\* a faulty send vector that forgets m_a_vec.remove(party_num_id);
\* Round2FollowsCursorPairing tells it apart
MbSendVecNoRemove(p, a, round_1) ==
  LET pos == OtherPositions(p, a)
  IN [j \in 1 .. Len(pos) |->
        MessageB(p, a, At(a.signers_vec, pos[j]), round_1[j])]

\* lines 276-301: m_b_gamma_send_vec / m_b_w_send_vec, one entry per cursor j
MbSendVec(p, a, round_1) ==
  LET m_a_vec == Remove(round_1, p)
      pos == OtherPositions(p, a)
  IN [j \in 1 .. Len(pos) |->
        MessageB(p, a, At(a.signers_vec, pos[j]), m_a_vec[j])]

\* whether the loops over 0..=threshold index out of bounds: signers_vec[i],
\* paillier_key_vector[signers_vec[i]], m_a_vec[j]
MtaLoopPanics(p, a, len) ==
  LET pos == OtherPositions(p, a)
  IN \E j \in 1 .. Len(pos) :
       \/ ~InRange(a.signers_vec, pos[j])
       \/ At(a.signers_vec, pos[j]) >= a.keystore_n
       \/ j - 1 >= len

\* m_b.verify_proofs_get_alpha(&party_keys.dk, &sign_keys.k_i): the B-message
\* answers this party's MessageA under this party's Paillier key
AlphaVerify(p, a, m_b) == m_b.ok /\ m_b.dst = Ident(p, a) /\ m_b.val = Ident(p, a)

\* lines 349-384: the first position whose proofs fail, as the error text
MtaFailure(p, a, round_2) ==
  LET rec == Remove(round_2, p)
      pos == OtherPositions(p, a)
      bad == {j \in 1 .. Len(pos) :
                \/ ~AlphaVerify(p, a, rec[j])
                \/ rec[j].src # At(a.signers_vec, pos[j])}
      j == CHOOSE x \in bad : \A y \in bad : x <= y
  IN IF bad = {} THEN <<>>
     ELSE IF ~AlphaVerify(p, a, rec[j])
       THEN <<"Verifying of alpha proofs failed">>
     ELSE <<"proof point not equal to Gamma W">>

\* SignKeys::phase4: decommitment j opens the round-1 commitment j and its
\* point is the one of the gamma B-proof j
Phase4Verify(p, b_proof_vec, decommit_vec, bc1_vec) ==
  /\ Len(decommit_vec) = Len(bc1_vec)
  /\ Len(decommit_vec) = Len(b_proof_vec)
  /\ AllIdx(decommit_vec, LAMBDA i :
       /\ At(decommit_vec, i).ok
       /\ At(decommit_vec, i).src = At(bc1_vec, i).src
       /\ At(decommit_vec, i).src = At(b_proof_vec, i).src)

\* LocalSignature::phase5c over the first `threshold` entries
Phase5cVerify(decomm_vec, commit5a_vec) ==
  AllIdx(decomm_vec, LAMBDA i :
    /\ InRange(commit5a_vec, i)
    /\ At(decomm_vec, i).ok
    /\ At(commit5a_vec, i).ok
    /\ At(decomm_vec, i).src = At(commit5a_vec, i).src)

\* LocalSignature::phase5d
Phase5dVerify(decommit5d_vec, commit5c_vec) ==
  /\ Len(decommit5d_vec) = Len(commit5c_vec)
  /\ AllIdx(decommit5d_vec, LAMBDA i :
       /\ At(decommit5d_vec, i).ok
       /\ At(commit5c_vec, i).ok
       /\ At(decommit5d_vec, i).src = At(commit5c_vec, i).src)

\* the scalar a party sends in round r (3: delta_i, 9: s_i)
SgScalar(p, a, r) == Body(Ident(p, a), -1, r, TRUE)

\* LocalSignature::output_signature: the signature verifies under y_sum when
\* every s_j is a partial signature and R came from the parties' deltas
OutputSignatureVerify(s_i_vec, delta_vec) ==
  /\ AllIdx(s_i_vec, LAMBDA i : At(s_i_vec, i).ok /\ At(s_i_vec, i).val = 9)
  /\ AllIdx(delta_vec, LAMBDA i : At(delta_vec, i).ok /\ At(delta_vec, i).val = 3)

\* OutgoingMessages::make_complete_signature(sig)
make_complete_signature(sig) == CompleteEv([tag |-> "Sign", body |-> [signature |-> sig]])

\* a round of the shape log; broadcast; log; collect
SignBroadcastRound(p, a, r, my_value, check) ==
  ThenCollect(
    <<LogEv(<<"Broadcasting round ", ToString(r)>>)>>
      \o broadcast(a.participants, p, Data(SignTags[r], my_value))
      \o <<LogEv(<<"Collecting data for round ", ToString(r)>>)>>,
    r, my_value, check)

\* lines 207-259: the panics are the indexings of lines 230-231
SignStart(p, a) ==
  IF ~InRange(a.signers_vec, p) \/ At(a.signers_vec, p) >= a.keystore_n
    THEN [ops |-> <<LogEv(<<"Start signature generation">>), PanicOp>>,
          next |-> "stop", round |-> 0, my_value |-> NoBody, check |-> <<>>]
  ELSE LET b == SignBroadcastRound(p, a, 1, SgRound1(p, a), <<>>)
       IN [b EXCEPT !.ops = <<LogEv(<<"Start signature generation">>)>> \o @]

\* lines 266-334
SignAfter1(p, a, hist) ==
  IF MtaLoopPanics(p, a, Len(hist[1]) - 1) THEN Stops(PanicOp)
  ELSE LET send_vec == MbSendVec(p, a, hist[1])
           pos == OtherPositions(p, a)
           ops == <<LogEv(<<"Broadcasting round 2">>)>>
                    \o [j \in 1 .. Len(pos) |->
                          make_send(p, pos[j], Data("SignRound2", send_vec[j]))]
                    \o <<LogEv(<<"Collecting data for round 2">>)>>
       IN IF send_vec = <<>>
            THEN \* m_b_gamma_send_vec[0] of line 329
                 [ops |-> ops \o <<PanicOp>>, next |-> "stop", round |-> 0,
                  my_value |-> NoBody, check |-> <<>>]
          ELSE ThenCollect(ops, 2, send_vec[1], <<>>)

\* lines 340-404
SignAfter2(p, a, hist) ==
  IF MtaLoopPanics(p, a, Len(hist[2]) - 1) THEN Stops(PanicOp)
  ELSE IF MtaFailure(p, a, hist[2]) # <<>>
    THEN Stops(FailOp("ExecutionIssue", MtaFailure(p, a, hist[2])))
  ELSE SignBroadcastRound(p, a, 3, SgScalar(p, a, 3), <<"mta">>)

\* lines 411-429
SignAfter3(p, a, hist) ==
  SignBroadcastRound(p, a, 4, Body(Ident(p, a), -1, 0, TRUE), <<>>)

\* lines 435-466
SignAfter4(p, a, hist) ==
  IF ~Phase4Verify(p, Remove(hist[2], p), Remove(hist[4], p), Remove(hist[1], p))
    THEN Stops(FailOp("ExecutionIssue", <<"Bad gamma_i decommit">>))
  ELSE SignBroadcastRound(p, a, 5, Body(Ident(p, a), -1, 0, TRUE), <<"phase4">>)

\* lines 473-493
SignAfter5(p, a, hist) ==
  SignBroadcastRound(p, a, 6, Body(Ident(p, a), -1, 0, TRUE), <<>>)

\* lines 503-536: (0..threshold).map(|i| decommit5a_and_elgamal_vec[i])
SignAfter6(p, a, hist) ==
  LET decom == Remove(hist[6], p)
  IN IF a.threshold > Len(decom) THEN Stops(PanicOp)
     ELSE IF ~Phase5cVerify(SubSeq(decom, 1, a.threshold), Remove(hist[5], p))
       THEN Stops(FailOp("ExecutionIssue", <<"Phase 5 failed">>))
     ELSE SignBroadcastRound(p, a, 7, Body(Ident(p, a), -1, 0, TRUE), <<"phase5c">>)

\* lines 542-557
SignAfter7(p, a, hist) ==
  SignBroadcastRound(p, a, 8, Body(Ident(p, a), -1, 0, TRUE), <<>>)

\* lines 562-595: (0..=threshold).map(|i| decommit5a_and_elgamal_vec_includes_i[i])
SignAfter8(p, a, hist) ==
  IF a.threshold + 1 > Len(hist[6]) THEN Stops(PanicOp)
  ELSE IF ~Phase5dVerify(hist[8], hist[7])
    THEN Stops(FailOp("ExecutionIssue", <<"Incorrect commitment at phase 5">>))
  ELSE SignBroadcastRound(p, a, 9, SgScalar(p, a, 9), <<"phase5d">>)

\* a faulty driver that surfaces the signature without output_signature's
\* verification; CompleteSignOnlyAfterChecks tells it apart
SignAfter9Unverified(p, a, hist) ==
  ThenReturn(
    <<make_complete_signature([r |-> hist[3], s |-> hist[9]]), QuitEv>>,
    <<"output_signature">>)

\* lines 602-616
SignAfter9(p, a, hist) ==
  IF ~OutputSignatureVerify(Remove(hist[9], p), hist[3])
    THEN Stops(FailOp("ExecutionIssue", <<"Signature verification failed">>))
  ELSE ThenReturn(
         <<make_complete_signature([r |-> hist[3], s |-> hist[9]]), QuitEv>>,
         <<"output_signature">>)

SignAfter(p, a, hist) ==
  CASE Len(hist) = 1 -> SignAfter1(p, a, hist)
    [] Len(hist) = 2 -> SignAfter2(p, a, hist)
    [] Len(hist) = 3 -> SignAfter3(p, a, hist)
    [] Len(hist) = 4 -> SignAfter4(p, a, hist)
    [] Len(hist) = 5 -> SignAfter5(p, a, hist)
    [] Len(hist) = 6 -> SignAfter6(p, a, hist)
    [] Len(hist) = 7 -> SignAfter7(p, a, hist)
    [] Len(hist) = 8 -> SignAfter8(p, a, hist)
    [] OTHER -> SignAfter9(p, a, hist)

\* the block from the driver's entry to its first collect_round
StartBlock(p, a) == IF a.proto = "keygen" THEN KeygenStart(p, a) ELSE SignStart(p, a)

\* a faulty driver that starts over from round 1 whenever a round returned;
\* DriverIsLinearAndFailuresFatal tells it apart
AfterBlockRestart(p, a, hist) == StartBlock(p, a)

\* the block a driver runs when collect_round has returned Ok(vec)
AfterBlock(p, a, hist) ==
  IF a.proto = "keygen" THEN KeygenAfter(p, a, hist) ELSE SignAfter(p, a, hist)

(***************************************************************************)
(* scenarios/mod.rs: collect_round and the drivers' steps                  *)
(***************************************************************************)
Running(p) == drv[p].pc \in {"start", "collect"}

\* a step of the collect loop that stays in the loop
ThenLoop(ops) ==
  [ops |-> ops, next |-> "loop", round |-> 0, my_value |-> NoBody, check |-> <<>>]

\* a faulty collector whose budget is per session: a later round goes on with
\* what the earlier rounds left; BudgetIsPerRound tells it apart
EnterCollectCarryBudget(p, a, l, blk) ==
  IF ~(p < a.participants)
    THEN [l EXCEPT !.pc = "panic", !.res = "Panic"]
  ELSE [l EXCEPT !.pc = "collect",
                 !.round = blk.round,
                 !.timeout = IF l.round = 0 THEN CollectBudget ELSE @,
                 !.vec = SetAt(Resize(a.participants), p, Some(blk.my_value)),
                 !.mine = Append(@, blk.my_value),
                 !.passed = @ \o blk.check]

\* lines 110-117: vec.resize(participants, None); vec[party_id] = Some(my_value)
EnterCollect(p, a, l, blk) ==
  IF ~(p < a.participants)
    THEN [l EXCEPT !.pc = "panic", !.res = "Panic"]
  ELSE [l EXCEPT !.pc = "collect",
                 !.round = blk.round,
                 !.timeout = CollectBudget,
                 !.vec = SetAt(Resize(a.participants), p, Some(blk.my_value)),
                 !.mine = Append(@, blk.my_value),
                 !.passed = @ \o blk.check]

\* what stays of the emitted events on the consumer's side: a host that keeps
\* no log discards the Log events as they arrive
Kept(evs) == IF env.logs THEN evs ELSE SelectSeq(evs, LAMBDA e : e.ev # "Log")

\* party p runs block blk from local state l; the consumer of its emitter
\* takes the first c sends
Apply(p, blk, c, l) ==
  LET r == RunBlock(blk.ops, c)
      closes == tx[p] /\ Closes(blk.ops, c)
  IN /\ out' = [out EXCEPT ![p] = @ \o Kept(r.emitted)]
     /\ tx' = [tx EXCEPT ![p] = @ /\ ~closes]
     /\ env' = [env EXCEPT !.faults = @ + (IF closes THEN 1 ELSE 0)]
     /\ drv' = [drv EXCEPT ![p] =
          CASE r.status = "go" /\ blk.next = "collect" -> EnterCollect(p, args, l, blk)
            [] r.status = "go" /\ blk.next = "return" ->
                 [l EXCEPT !.pc = "done", !.res = "Ok", !.passed = @ \o blk.check]
            [] r.status = "go" /\ blk.next = "loop" -> l
            [] r.status = "Panic" -> [l EXCEPT !.pc = "panic", !.res = "Panic"]
            [] OTHER -> [l EXCEPT !.pc = "done", !.res = r.status]]

\* keygeneration / sign called: the driver runs up to its first collect_round
Start(p) ==
  /\ drv[p].pc = "start"
  /\ \E c \in Cuts(p, StartBlock(p, args).ops) :
       Apply(p, StartBlock(p, args), c, drv[p])
  /\ UNCHANGED <<args, procs, inbox, rx, net>>

\* a faulty collector whose expiry reports a closed channel;
\* TimeoutEndsHalted tells it apart
TimeoutBlockAsClosed ==
  [ops |-> <<LogEv(<<"Collecting data timeout achived. Halt the process">>),
             FailOp("TransportIssue", <<"Incoming message channel is closed">>)>>,
   next |-> "stop", round |-> 0, my_value |-> NoBody, check |-> <<>>]

\* lines 120-128: the budget is used up
TimeoutBlock ==
  [ops |-> <<LogEv(<<"Collecting data timeout achived. Halt the process">>),
             FailOp("Timeout", <<"Collecting time is over">>)>>,
   next |-> "stop", round |-> 0, my_value |-> NoBody, check |-> <<>>]

\* a faulty collector that gives up only once the budget is below zero: a
\* 30th poll still reads the channel; CollectEndsWithinBudget tells it apart
ExpiredBelowZero(p) == drv[p].timeout - PollQuantum < 0

Expired(p) == drv[p].timeout - PollQuantum <= 0

AllFilled(vec) == \A k \in 1 .. Len(vec) : IsSome(vec[k])

PollTimeout(p) ==
  /\ drv[p].pc = "collect"
  /\ Expired(p)
  /\ \E c \in Cuts(p, TimeoutBlock.ops) :
       Apply(p, TimeoutBlock, c, [drv[p] EXCEPT !.timeout = @ - PollQuantum])
  /\ UNCHANGED <<args, procs, inbox, rx, net>>

\* lines 130-132 and 161-170: every slot is filled, collect_round returns
\* the vector and the driver goes on to its next collect_round or its end
PollFull(p) ==
  /\ drv[p].pc = "collect"
  /\ ~Expired(p)
  /\ AllFilled(drv[p].vec)
  /\ LET result == [k \in 1 .. Len(drv[p].vec) |-> Unwrap(drv[p].vec[k])]
         l == [drv[p] EXCEPT !.hist = Append(@, result)]
         blk == AfterBlock(p, args, l.hist)
     IN \E c \in Cuts(p, blk.ops) : Apply(p, blk, c, l)
  /\ UNCHANGED <<args, procs, inbox, rx, net>>

\* lines 134-140, 156-158: Err(TryRecvError::Empty) => continue
PollEmpty(p) ==
  /\ drv[p].pc = "collect"
  /\ ~Expired(p)
  /\ ~AllFilled(drv[p].vec)
  /\ inbox[p] = <<>>
  /\ rx[p]
  /\ drv' = [drv EXCEPT ![p].timeout = @ - PollQuantum]
  /\ UNCHANGED <<args, procs, inbox, rx, out, tx, net, env>>

\* a faulty collector that takes a closed channel for an expired budget;
\* DisconnectEndsHalted tells it apart
DisconnectedBlockAsTimeout ==
  [ops |-> <<FailOp("Timeout", <<"Collecting time is over">>)>>,
   next |-> "stop", round |-> 0, my_value |-> NoBody, check |-> <<>>]

\* lines 136-138, 143: Err(TryRecvError::Disconnected)
DisconnectedBlock ==
  [ops |-> <<FailOp("TransportIssue", <<"Incoming message channel is closed">>)>>,
   next |-> "stop", round |-> 0, my_value |-> NoBody, check |-> <<>>]

PollDisconnected(p) ==
  /\ drv[p].pc = "collect"
  /\ ~Expired(p)
  /\ ~AllFilled(drv[p].vec)
  /\ inbox[p] = <<>>
  /\ ~rx[p]
  /\ \E c \in Cuts(p, DisconnectedBlock.ops) :
       Apply(p, DisconnectedBlock, c, [drv[p] EXCEPT !.timeout = @ - PollQuantum])
  /\ UNCHANGED <<args, procs, inbox, rx, net>>

\* lines 143-155: a message is dequeued
RecvBlock(T, vec, m) ==
  IF ~InRange(vec, m.sender)
    THEN \* vec[sender as usize] of line 150
         Stops(PanicOp)
  ELSE ThenLoop(
         <<LogEv(<<"Received ">> \o DisplayData(m.data)
                   \o <<" from ", ToString(m.sender), " (duplicate? ",
                        ToString(IsSome(At(vec, m.sender))), ")">>)>>
           \o (IF get_from_data(T, m.data) = None
                 THEN <<FailOp("InvalidData",
                          <<"Unexpected incoming data (">> \o DisplayData(m.data)
                            \o <<")">>)>>
                 ELSE <<>>))

\* a faulty collector that keeps the first fill of a slot;
\* DuplicateOverwrites tells it apart
StoreFirst(T, vec, m) ==
  IF InRange(vec, m.sender) /\ get_from_data(T, m.data) # None
       /\ ~IsSome(At(vec, m.sender))
    THEN SetAt(vec, m.sender, get_from_data(T, m.data))
    ELSE vec

\* a faulty collector that fills the slots in the order of arrival;
\* ReturnedVectorIsBySender tells it apart
StoreInArrivalOrder(T, vec, m) ==
  IF InRange(vec, m.sender) /\ get_from_data(T, m.data) # None
    THEN SetAt(vec, (CHOOSE k \in 1 .. Len(vec) :
                       /\ ~IsSome(vec[k])
                       /\ \A j \in 1 .. (k - 1) : IsSome(vec[j])) - 1,
               get_from_data(T, m.data))
    ELSE vec

\* line 155: vec[sender as usize] = Some(tvalue)
Store(T, vec, m) ==
  IF InRange(vec, m.sender) /\ get_from_data(T, m.data) # None
    THEN SetAt(vec, m.sender, get_from_data(T, m.data))
    ELSE vec

\* a faulty collector that calls try_recv before it tests whether every slot
\* is filled; FilledRoundDequeuesNothing tells it apart
DequeueBeforeFullTest(p, m) ==
  /\ drv[p].pc = "collect"
  /\ ~Expired(p)
  /\ LET T == Types(args.proto)[drv[p].round]
         blk == RecvBlock(T, drv[p].vec, m)
     IN \E c \in Cuts(p, blk.ops) :
          Apply(p, blk, c,
                [drv[p] EXCEPT !.timeout = @ - PollQuantum,
                               !.vec = IF c < NumEmits(blk.ops) THEN @
                                       ELSE Store(T, @, m)])
  /\ UNCHANGED <<args, procs, rx>>

\* lines 142-155: try_recv returned Ok(m)
Dequeue(p, m) ==
  /\ drv[p].pc = "collect"
  /\ ~Expired(p)
  /\ ~AllFilled(drv[p].vec)
  /\ LET T == Types(args.proto)[drv[p].round]
         blk == RecvBlock(T, drv[p].vec, m)
     IN \E c \in Cuts(p, blk.ops) :
          Apply(p, blk, c,
                [drv[p] EXCEPT !.timeout = @ - PollQuantum,
                               !.vec = IF c < NumEmits(blk.ops) THEN @
                                       ELSE Store(T, @, m)])
  /\ UNCHANGED <<args, procs, rx>>

PollRecv(p) ==
  /\ inbox[p] # <<>>
  /\ Dequeue(p, Head(inbox[p]))
  /\ inbox' = [inbox EXCEPT ![p] = Tail(@)]
  /\ UNCHANGED net

(***************************************************************************)
(* The environment of a single party (Spec): the transport and the peers.  *)
(* Each peer q hands over the messages an honest run of the same driver    *)
(* sends to the party, in round order; up to MaxFaults times the           *)
(* environment deviates: a message of any sender label and tag, a dropped  *)
(* inbound producer, a dropped consumer of the emitter.                    *)
(***************************************************************************)
\* the body party q sends to party t in round r of the protocol
PeerBody(q, t, a, r) ==
  IF a.proto = "keygen"
    THEN CASE r = 1 -> KgBc(q)
           [] r = 2 -> KgDecom(q)
           [] r = 3 -> aes_encrypt(DhKey(Y(t), U(q)), SecretShare(q, t))
           [] r = 4 -> KgVss(q)
           [] OTHER -> KgDlog(q)
  ELSE CASE r = 1 -> SgRound1(q, a)
         [] r = 2 -> MessageB(q, a, Ident(t, a), SgRound1(t, a))
         [] r \in {3, 9} -> SgScalar(q, a, r)
         [] OTHER -> Body(Ident(q, a), -1, 0, TRUE)

RoundOfTag(proto, tag) ==
  IF \E r \in 1 .. NRounds(proto) : Tags(proto)[r] = tag
    THEN CHOOSE r \in 1 .. NRounds(proto) : Tags(proto)[r] = tag
    ELSE 0

\* the tags a deviating message carries while the party is in round r: the
\* round's own, the next round's, the other scalar round's, and None
FaultTags(proto, r) ==
  {Tags(proto)[r], Tags(proto)[(r % NRounds(proto)) + 1], "None"}
    \cup (IF proto = "sign" /\ r \in {3, 9} THEN {"SignRound3", "SignRound9"} ELSE {})

FaultData(sender, t, a, tag, ok) ==
  IF tag = "None" THEN NoData
  ELSE Data(tag, [PeerBody(sender, t, a, RoundOfTag(a.proto, tag)) EXCEPT !.ok = ok])

Me == CHOOSE p \in procs : TRUE

Peers == (0 .. (args.participants - 1)) \ procs

EnvSend(q) ==
  /\ Running(Me)
  /\ rx[Me]
  /\ Len(inbox[Me]) < MaxInbox
  /\ env.sent[q] < NRounds(args.proto)
  /\ inbox' = [inbox EXCEPT ![Me] =
       Append(@, Incoming(q, Me,
         Data(Tags(args.proto)[env.sent[q] + 1],
              PeerBody(q, Me, args, env.sent[q] + 1))))]
  /\ env' = [env EXCEPT !.sent[q] = @ + 1]
  /\ UNCHANGED <<args, procs, drv, rx, out, tx, net>>

EnvFault(sender, tag, ok) ==
  /\ drv[Me].pc = "collect"
  /\ rx[Me]
  /\ FaultsLeft
  /\ Len(inbox[Me]) < MaxInbox
  /\ tag \in FaultTags(args.proto, drv[Me].round)
  /\ inbox' = [inbox EXCEPT ![Me] =
       Append(@, Incoming(sender, Me, FaultData(sender, Me, args, tag, ok)))]
  /\ env' = [env EXCEPT !.faults = @ + 1]
  /\ UNCHANGED <<args, procs, drv, rx, out, tx, net>>

\* the transport drops the producer end of incoming_receiver
EnvDisconnect ==
  /\ Running(Me)
  /\ rx[Me]
  /\ FaultsLeft
  /\ rx' = [rx EXCEPT ![Me] = FALSE]
  /\ env' = [env EXCEPT !.faults = @ + 1]
  /\ UNCHANGED <<args, procs, drv, inbox, out, tx, net>>

AllTags == {"None"} \cup {KeyGenTags[r] : r \in 1 .. Len(KeyGenTags)}
             \cup {SignTags[r] : r \in 1 .. Len(SignTags)}

(***************************************************************************)
(* Spec: one party's session against its environment                       *)
(***************************************************************************)
\* signers_vec = [0, 1, .., threshold]
FirstSigners(t) == [k \in 1 .. (t + 1) |-> k - 1]

SessionArgs(proto, participants, threshold) ==
  [proto |-> proto, participants |-> participants, threshold |-> threshold,
   signers_vec |-> FirstSigners(threshold), keystore_n |-> participants]

InitOf(a, ps, faults, logs) ==
  /\ args = a
  /\ procs = ps
  /\ drv = [p \in ps |-> InitLocal]
  /\ inbox = [p \in ps |-> <<>>]
  /\ rx = [p \in ps |-> TRUE]
  /\ out = [p \in ps |-> <<>>]
  /\ tx = [p \in ps |-> TRUE]
  /\ net = [s \in ps |-> [t \in ps |-> 0]]
  /\ env = [faults |-> faults, logs |-> logs, sent |-> [q \in 0 .. (a.participants - 1) |-> 0]]

Init ==
  \E proto \in {"keygen", "sign"}, n \in 2 .. MaxN :
    \E t \in 1 .. (n - 1), me \in 0 .. (n - 1) :
      InitOf(SessionArgs(proto, n, t), {me}, 0, TRUE)

Next ==
  \/ Start(Me)
  \/ PollTimeout(Me)
  \/ PollFull(Me)
  \/ PollEmpty(Me)
  \/ PollDisconnected(Me)
  \/ PollRecv(Me)
  \/ \E q \in Peers : EnvSend(q)
  \/ \E sender \in 0 .. args.participants, tag \in AllTags, ok \in BOOLEAN :
       EnvFault(sender, tag, ok)
  \/ EnvDisconnect

Spec == Init /\ [][Next]_vars

(***************************************************************************)
(* SpecNet: NetN honest parties run keygeneration; the hosts route every   *)
(* Send event to its target's incoming channel, FIFO per sender and        *)
(* interleaved freely across senders.  net[s][t] counts the Sends of s to  *)
(* t already routed.  The order in which a collector dequeues is the order *)
(* in which the hosts pushed, so a routed message is taken by the target's *)
(* next try_recv in the same step.                                         *)
(***************************************************************************)
SendsTo(s, t) == SelectSeq(out[s], LAMBDA e : e.ev = "Send" /\ e.target = t)

Pending(s, t) == net[s][t] < Len(SendsTo(s, t))

Route(s, t) ==
  /\ s # t
  /\ Pending(s, t)
  /\ rx[t]
  /\ inbox[t] = <<>>
  /\ Dequeue(t, into_incoming(SendsTo(s, t)[net[s][t] + 1]))
  /\ net' = [net EXCEPT ![s][t] = @ + 1]
  /\ UNCHANGED inbox

\* polls of the current round that found the channel empty
Idle(p) ==
  ((CollectBudget - drv[p].timeout) \div PollQuantum)
    - Cardinality({i \in 1 .. Len(drv[p].vec) : i # p + 1 /\ IsSome(drv[p].vec[i])})

\* an awaited peer has stopped and nothing of it is on the way, or it takes
\* no part in the session at all
Starved(p) ==
  \/ \E q \in procs \ {p} :
       /\ ~IsSome(At(drv[p].vec, q))
       /\ ~Running(q)
       /\ ~Pending(q, p)
  \/ \E q \in Peers : InRange(drv[p].vec, q) /\ ~IsSome(At(drv[p].vec, q))

\* the transport delivers inside the round budget: a party polls an empty
\* channel at most MaxIdle times per round while its peers are still at work
IdleOk(p) == drv[p].pc = "collect" /\ (Idle(p) < MaxIdle \/ Starved(p))

InitNet == InitOf(SessionArgs("keygen", NetN, 1), Party, MaxFaults, FALSE)

NextNet ==
  \/ \E p \in Party : Start(p)
  \/ \E p \in Party : PollTimeout(p)
  \/ \E p \in Party : PollFull(p)
  \/ \E p \in Party : IdleOk(p) /\ PollEmpty(p)
  \/ \E s \in Party, t \in Party : Route(s, t)

SpecNet == InitNet /\ [][NextNet]_vars

(***************************************************************************)
(* SpecSubset: the signers 0 .. threshold of a keystore of SubsetN         *)
(* parties call sign, each with party_num_id = its position in             *)
(* signers_vec, with participants = threshold + 1 .. SubsetN; the host     *)
(* routes every Send whose target is a signer, FIFO per sender, and drops  *)
(* the Log events. The parties beyond the signers do not run.              *)
(***************************************************************************)
InitSubset ==
  \E n \in (SubsetT + 1) .. SubsetN :
    InitOf([SessionArgs("sign", n, SubsetT) EXCEPT !.keystore_n = SubsetN],
           0 .. SubsetT, MaxFaults, FALSE)

NextSubset ==
  \/ \E p \in procs : Start(p)
  \/ \E p \in procs : PollTimeout(p)
  \/ \E p \in procs : PollFull(p)
  \/ \E p \in procs : IdleOk(p) /\ PollEmpty(p)
  \/ \E s \in procs, t \in procs : Route(s, t)

SpecSubset == InitSubset /\ [][NextSubset]_vars

(***************************************************************************)
(* Properties                                                              *)
(***************************************************************************)
Has(p, ev) == \E i \in 1 .. Len(out[p]) : out[p][i].ev = ev

HasComplete(p, tag) ==
  \E i \in 1 .. Len(out[p]) : out[p][i].ev = "Complete" /\ out[p][i].data.tag = tag

LastN(s, n) == SubSeq(s, Len(s) - n + 1, Len(s))

NonSend(p) == SelectSeq(out[p], LAMBDA e : e.ev # "Send")

IsErrorLog(e) == e.ev = "Log" /\ e.text # <<>> /\ e.text[1] = "Error: "

ErrorKinds == {"InvalidData", "TransportIssue", "Timeout", "ExecutionIssue"}

\* the driver function returned Err(e)
Failed(p) == drv[p].pc = "done" /\ drv[p].res \in ErrorKinds

Succeeded(p) == drv[p].pc = "done" /\ drv[p].res = "Ok"

\* C1: keygen among three honest parties (n = 3, t = 1) whose Sends are all
\* routed inside the round budget, FIFO per sender and interleaved freely
\* across senders: no party emits Error (the safety half of "every party
\* emits Complete(KeyGen) then Quit and no party emits Error").
KeygenHonestNoError ==
  (\A p \in procs : drv[p].res # "Timeout")
    => \A p \in procs : ~Has(p, "Error")

RECURSIVE SumSlots(_, _)
\* the sum of the y_j of slots 1 .. j of a round-2 collection
SumSlots(vec, j) ==
  IF j = 0 THEN 0 ELSE (SumSlots(vec, j - 1) + vec[j].val) % GroupOrder

\* the Keystore carried by the Complete event of p
KeystoreOf(p) ==
  out[p][CHOOSE i \in 1 .. Len(out[p]) : out[p][i].ev = "Complete"].data.body.private_key

\* C2: after a successful keygen among honest parties the y_sum in every
\* party's Keystore is the same value, and it is the sum over all n slots
\* (the own slot included) of the y_j of the party's round-2 collection.
YSumOfAllOpenings ==
  \A p \in procs, q \in procs :
    (args.proto = "keygen" /\ Succeeded(p) /\ Succeeded(q))
      => /\ KeystoreOf(p).y_sum = KeystoreOf(q).y_sum
         /\ KeystoreOf(p).y_sum = SumSlots(drv[p].hist[2], args.participants)

AllKeygenSucceeded ==
  /\ args.proto = "keygen"
  /\ Cardinality(procs) = NetN
  /\ \A p \in procs : Succeeded(p) /\ HasComplete(p, "KeyGen")

\* the five collections returned full vectors and the three checks hold of them
KeygenChecksHold(p) ==
  LET h == drv[p].hist
  IN /\ Len(h) = 5
     /\ \A r \in 1 .. 5 : Len(h[r]) = args.participants
     /\ Phase2Verify(h[2], h[1])
     /\ VssVerify(p, PointVec(h[2]),
                  PartyShares(p, args.participants, EncKeys(p, h[2]), Remove(h[3], p)),
                  h[4])
     /\ DlogVerify(h[5], PointVec(h[2]))

\* C3: Complete(KeyGen) is on the emitter only if all five collections
\* returned and the phase-2, VSS and DLog verifications all hold of what was
\* collected; where one of them fails there is no Complete.
CompleteKeyGenOnlyAfterChecks ==
  \A p \in procs :
    /\ HasComplete(p, "KeyGen") => KeygenChecksHold(p)
    /\ (args.proto = "keygen" /\ drv[p].res = "ExecutionIssue") => ~Has(p, "Complete")

KeyGenCompleted ==
  \E p \in procs : HasComplete(p, "KeyGen") /\ env.faults > 0

\* the nine collections returned and every check of safe_sign holds of them
SignChecksHold(p) ==
  LET h == drv[p].hist
  IN /\ Len(h) = 9
     /\ \A r \in 1 .. 9 : Len(h[r]) = args.participants
     /\ MtaFailure(p, args, h[2]) = <<>>
     /\ Phase4Verify(p, Remove(h[2], p), Remove(h[4], p), Remove(h[1], p))
     /\ Phase5cVerify(SubSeq(Remove(h[6], p), 1, args.threshold), Remove(h[5], p))
     /\ Phase5dVerify(h[8], h[7])
     /\ OutputSignatureVerify(Remove(h[9], p), h[3])

\* C4: Complete(Sign) is on the emitter only if all nine collections
\* returned and the MtA proofs, phase4, phase5c, phase5d and
\* output_signature all hold; where a check fails there is no Complete and
\* the session ends with an error: safe_sign returned Err, and Error(Halted)
\* is the last event a connected consumer gets.
CompleteSignOnlyAfterChecks ==
  \A p \in procs :
    /\ HasComplete(p, "Sign") => SignChecksHold(p)
    /\ (args.proto = "sign" /\ drv[p].res = "ExecutionIssue")
         => /\ ~Has(p, "Complete")
            /\ drv[p].pc = "done"
            /\ tx[p] => out[p][Len(out[p])] = ErrorEv(Halted)

SignCompleted ==
  \E p \in procs : HasComplete(p, "Sign") /\ Succeeded(p) /\ env.faults > 0

\* C5, as stated: on success the non-Send events are Log*, Complete, Quit,
\* with Quit the event right after Complete.
SuccessIsLogsCompleteQuit ==
  \A p \in procs :
    Succeeded(p) =>
      LET ns == NonSend(p)
          n == Len(ns)
      IN /\ n >= 2
         /\ ns[n] = QuitEv
         /\ ns[n - 1].ev = "Complete"
         /\ \A i \in 1 .. (n - 2) : ns[i].ev = "Log"

\* C5, amended: on success Complete is emitted exactly once, after Logs and
\* Sends only; Quit is the last event; between the two nothing is emitted by
\* sign and exactly Log("Send quit") by keygeneration.
SuccessEndsCompleteThenQuit ==
  \A p \in procs :
    Succeeded(p) =>
      LET n == Len(out[p])
          at == {i \in 1 .. n : out[p][i].ev = "Complete"}
          k == CHOOSE i \in at : TRUE
      IN /\ Cardinality(at) = 1
         /\ \A i \in 1 .. (k - 1) : out[p][i].ev \in {"Log", "Send"}
         /\ out[p][n] = QuitEv
         /\ SubSeq(out[p], k + 1, n - 1) =
              (IF args.proto = "keygen" THEN <<LogEv(<<"Send quit">>)>> ELSE <<>>)

KeygenSucceeded ==
  \E p \in procs : args.proto = "keygen" /\ Succeeded(p) /\ env.faults = 0

\* C6, as stated: on any failure inside a driver the party emits a Log
\* starting "Error: " and right after it Error(Halted), which is the last
\* event, and no Quit.
FailureEmitsLogThenHalted ==
  \A p \in procs :
    Failed(p) =>
      /\ Len(out[p]) >= 2
      /\ IsErrorLog(out[p][Len(out[p]) - 1])
      /\ out[p][Len(out[p])] = ErrorEv(Halted)
      /\ ~Has(p, "Quit")

\* C6, amended: on any failure inside a driver no Quit is emitted, an Error
\* event is Error(Halted), is the last event and follows a Log starting
\* "Error: "; the two are emitted whenever the emitter's consumer is still
\* connected.
FailureEndsLogThenHalted ==
  \A p \in procs :
    Failed(p) =>
      LET n == Len(out[p])
      IN /\ ~Has(p, "Quit")
         /\ \A i \in 1 .. n :
              out[p][i].ev = "Error" =>
                /\ i = n
                /\ out[p][i] = ErrorEv(Halted)
                /\ i > 1
                /\ IsErrorLog(out[p][i - 1])
         /\ tx[p] => (n >= 2 /\ out[p][n] = ErrorEv(Halted))

CheckFailedAndReported ==
  \E p \in procs :
    /\ Failed(p)
    /\ drv[p].res = "ExecutionIssue"
    /\ tx[p]
    /\ out[p][Len(out[p])] = ErrorEv(Halted)

\* the poll of p that finds the round budget used up
ExpiryStep(p) == drv[p].pc = "collect" /\ Expired(p) /\ drv'[p] # drv[p]

\* C7, as stated: when a round's budget runs out the session terminates with
\* the error code CollectTimeout (10) on the emitter.
TimeoutEmitsCollectTimeout ==
  [][\A p \in procs :
       (ExpiryStep(p) /\ tx'[p])
         => out'[p][Len(out'[p])] = ErrorEv(CollectTimeout)]_vars

\* C7, amended: when a round's budget runs out (the 30th poll of the round)
\* collection fails with Timeout and the session terminates with
\* Log("Collecting data timeout achived. Halt the process"),
\* Log("Error: Timeout (Collecting time is over)"), Error(Halted): the code
\* on the emitter is Halted (0).
TimeoutEndsHalted ==
  [][\A p \in procs :
       (ExpiryStep(p) /\ tx'[p])
         => /\ drv'[p].pc = "done"
            /\ drv'[p].res = "Timeout"
            /\ drv[p].timeout = PollQuantum
            /\ out'[p] = out[p] \o
                 <<LogEv(<<"Collecting data timeout achived. Halt the process">>),
                   LogEv(<<"Error: ", "Timeout (", "Collecting time is over", ")">>),
                   ErrorEv(Halted)>>]_vars

TimedOutOnEmptySlot ==
  \E p \in procs :
    /\ drv[p].res = "Timeout"
    /\ tx[p]
    /\ ~AllFilled(drv[p].vec)
    /\ out[p][Len(out[p])].ev = "Error"

\* the poll of p that finds the incoming channel empty and disconnected
DisconnectStep(p) ==
  /\ drv[p].pc = "collect"
  /\ ~Expired(p)
  /\ ~AllFilled(drv[p].vec)
  /\ inbox[p] = <<>>
  /\ ~rx[p]
  /\ drv'[p] # drv[p]

\* C8, as stated: when the inbound receiver is found disconnected while a
\* round has an empty slot the session terminates with the error code
\* CollectDisconnected (12) on the emitter.
DisconnectEmitsCollectDisconnected ==
  [][\A p \in procs :
       (DisconnectStep(p) /\ tx'[p])
         => out'[p][Len(out'[p])] = ErrorEv(CollectDisconnected)]_vars

\* C8, amended: when the inbound receiver is found disconnected while a
\* round has an empty slot collection fails with TransportIssue and the
\* session terminates with
\* Log("Error: Transport issue (Incoming message channel is closed)"),
\* Error(Halted): the code on the emitter is Halted (0).
DisconnectEndsHalted ==
  [][\A p \in procs :
       (DisconnectStep(p) /\ tx'[p])
         => /\ drv'[p].pc = "done"
            /\ drv'[p].res = "TransportIssue"
            /\ out'[p] = out[p] \o
                 <<LogEv(<<"Error: ", "Transport issue (",
                           "Incoming message channel is closed", ")">>),
                   ErrorEv(Halted)>>]_vars

FoundDisconnected ==
  \E p \in procs :
    /\ drv[p].pc = "done"
    /\ drv[p].res = "TransportIssue"
    /\ ~rx[p]
    /\ tx[p]
    /\ ~AllFilled(drv[p].vec)

\* the poll of p that dequeues a message the round's projection rejects
WrongTagStep(p) ==
  /\ drv[p].pc = "collect"
  /\ ~Expired(p)
  /\ ~AllFilled(drv[p].vec)
  /\ inbox[p] # <<>>
  /\ get_from_data(Types(args.proto)[drv[p].round], Head(inbox[p]).data) = None
  /\ inbox'[p] = Tail(inbox[p])

\* C9: if, while round r has an empty slot, the collector dequeues a message
\* whose tag round r's projection does not accept, collection fails with
\* InvalidData, no slot is modified, no further Send is emitted and the
\* session ends with a Log followed by Error(Halted).
WrongTagEndsInvalidData ==
  [][\A p \in procs :
       WrongTagStep(p)
         => /\ drv'[p].pc = "done"
            /\ drv'[p].res = "InvalidData"
            /\ drv'[p].vec = drv[p].vec
            /\ \A i \in (Len(out[p]) + 1) .. Len(out'[p]) : out'[p][i].ev # "Send"
            /\ Len(out'[p]) >= 2
            /\ out'[p][Len(out'[p]) - 1].ev = "Log"
            /\ out'[p][Len(out'[p])] = ErrorEv(Halted)]_vars

\* C10: whenever collect_round returns success, whatever came in (messages
\* labelled with the collector's own party_id included), the vector has
\* exactly `participants` elements and its element at party_id is the
\* my_value the caller supplied.
CollectKeepsOwnValue ==
  \A p \in procs :
    \A k \in 1 .. Len(drv[p].hist) :
      /\ Len(drv[p].hist[k]) = args.participants
      /\ At(drv[p].hist[k], p) = drv[p].mine[k]

\* C11: collect_round fails with Timeout only where a slot is still empty:
\* with every slot filled by the time the budget reaches zero the round
\* returns success.
TimeoutOnlyWithEmptySlot ==
  \A p \in procs :
    (drv[p].pc = "done" /\ drv[p].res = "Timeout") => ~AllFilled(drv[p].vec)

\* the step of p that enters a call of collect_round
EntersRound(p) ==
  /\ drv'[p].pc = "collect"
  /\ drv[p].pc # "collect" \/ drv'[p].round # drv[p].round

\* a poll of p after which the same call of collect_round goes on
PollsOn(p) ==
  /\ drv[p].pc = "collect"
  /\ drv'[p].pc = "collect"
  /\ drv'[p].round = drv[p].round
  /\ drv'[p] # drv[p]

\* C12: the budget is per round: every call of collect_round starts with a
\* fresh 3000 ms, each poll (one 100 ms sleep) takes 100 ms off it, and a
\* round fails with Timeout exactly on its 30th poll, whatever earlier
\* rounds of the session consumed.
BudgetIsPerRound ==
  [][\A p \in procs :
       /\ EntersRound(p) => drv'[p].timeout = CollectBudget
       /\ PollsOn(p) => drv'[p].timeout = drv[p].timeout - PollQuantum
       /\ (drv[p].pc = "collect" /\ drv'[p].res = "Timeout")
            => CollectBudget - drv[p].timeout = 29 * PollQuantum
       /\ (drv[p].pc = "collect" /\ drv'[p] # drv[p]
             /\ CollectBudget - drv[p].timeout = 29 * PollQuantum)
            => /\ drv'[p].pc = "done"
               /\ drv'[p].res \in {"Timeout", "TransportIssue"}
               /\ tx'[p] => drv'[p].res = "Timeout"]_vars

TimedOutInLaterRound ==
  \E p \in procs :
    /\ drv[p].res = "Timeout"
    /\ drv[p].round >= 2
    /\ ~AllFilled(drv[p].vec)
    /\ drv[p].timeout = 0

(***************************************************************************)
(* SpecRound: one party of a keygen session of RoundN participants; its    *)
(* peers send their round messages and may resend a round message, as it   *)
(* was or altered, under any sender label of the session.                  *)
(***************************************************************************)
InitRound == InitOf(SessionArgs("keygen", RoundN, 1), {RoundMe}, 0, TRUE)

NextRound ==
  \/ Start(Me)
  \/ PollTimeout(Me)
  \/ PollFull(Me)
  \/ PollEmpty(Me)
  \/ PollRecv(Me)
  \/ \E q \in Peers : EnvSend(q)
  \/ \E sender \in 0 .. (args.participants - 1), ok \in BOOLEAN :
       EnvFault(sender, Tags(args.proto)[drv[Me].round], ok)

SpecRound == InitRound /\ [][NextRound]_vars

\* the poll of p that dequeues an accepted message of a sender whose slot is
\* already filled
DuplicateStep(p) ==
  /\ drv[p].pc = "collect"
  /\ ~Expired(p)
  /\ ~AllFilled(drv[p].vec)
  /\ inbox[p] # <<>>
  /\ InRange(drv[p].vec, Head(inbox[p]).sender)
  /\ IsSome(At(drv[p].vec, Head(inbox[p]).sender))
  /\ get_from_data(Types(args.proto)[drv[p].round], Head(inbox[p]).data) # None
  /\ inbox'[p] = Tail(inbox[p])

\* the poll of p that finds every slot filled inside the budget
ReturnStep(p) ==
  /\ drv[p].pc = "collect"
  /\ ~Expired(p)
  /\ AllFilled(drv[p].vec)
  /\ drv'[p] # drv[p]

\* C13: a round-r message of a sender whose slot is already filled, taken
\* while another slot is empty, is logged as a duplicate, overwrites the
\* slot with the later body and raises no error (the emitter being
\* connected); the round returns its slots once all are filled inside the
\* budget; an identical resend leaves the vector as it was.
DuplicateOverwrites ==
  [][\A p \in procs :
       /\ (DuplicateStep(p) /\ tx'[p])
            => LET m == Head(inbox[p])
               IN /\ out'[p] = Append(out[p],
                       LogEv(<<"Received ", "Message: ", m.data.tag, " from ",
                               ToString(m.sender), " (duplicate? ", "TRUE", ")">>))
                  /\ drv'[p].pc = "collect"
                  /\ drv'[p].res = ""
                  /\ drv'[p].vec = SetAt(drv[p].vec, m.sender, Some(m.data.body))
                  /\ (Unwrap(At(drv[p].vec, m.sender)) = m.data.body
                        => drv'[p].vec = drv[p].vec)
       /\ ReturnStep(p)
            => drv'[p].hist =
                 Append(drv[p].hist,
                        [k \in 1 .. Len(drv[p].vec) |-> Unwrap(drv[p].vec[k])])]_vars

\* a Log of p telling of a duplicate of round 1 from a peer
IsPeerDuplicateLog(p, e) ==
  /\ e.ev = "Log"
  /\ Len(e.text) = 8
  /\ e.text[1] = "Received "
  /\ e.text[3] = "KeyGenRound1"
  /\ e.text[5] # ToString(p)
  /\ e.text[7] = "TRUE"

RoundReturnedAfterPeerDuplicate ==
  \E p \in procs :
    /\ Len(drv[p].hist) >= 1
    /\ \E i \in 1 .. Len(out[p]) : IsPeerDuplicateLog(p, out[p][i])
    /\ ~drv[p].hist[1][1].ok

\* C14: for one round-r message from each peer, all taken inside the budget,
\* the vector collect_round returns is the same for every order of arrival:
\* its element at index s is the body the peer labelled s sent (and the
\* caller's my_value at the party's own index).
ReturnedVectorIsBySender ==
  \A p \in procs :
    env.faults = 0 =>
      \A k \in 1 .. Len(drv[p].hist) :
        drv[p].hist[k] =
          [n \in 1 .. args.participants |->
             IF n - 1 = p THEN drv[p].mine[k] ELSE PeerBody(n - 1, p, args, k)]

\* the party took the round-1 message of its higher peer before the one of
\* its lower peer, and round 1 returned
RoundReturnedInReverseOrder ==
  \E p \in procs :
    /\ env.faults = 0
    /\ args.participants >= 3
    /\ Len(drv[p].hist) >= 1
    /\ LET rcv == SelectSeq(out[p], LAMBDA e :
                    e.ev = "Log" /\ Len(e.text) = 8 /\ e.text[1] = "Received ")
       IN /\ Len(rcv) >= 2
          /\ rcv[1].text[5] = ToString(args.participants - 1)
          /\ rcv[2].text[5] = ToString(0)

\* the events the step puts on the emitter of p
NewEvents(p) == SubSeq(out'[p], Len(out[p]) + 1, Len(out'[p]))

\* C15: both drivers are linear and failures are fatal: the Sends of round
\* r+1 are emitted only in the stretch that follows the success of round r's
\* collection, the round number never goes back, and a failure of a
\* collection or of a check is followed by Log and Error events only and by
\* nothing once the call has returned (no Send, no Complete, no retry).
DriverIsLinearAndFailuresFatal ==
  [][\A p \in procs :
       /\ drv'[p].round \in {drv[p].round, drv[p].round + 1}
       /\ Len(drv'[p].hist) \in {Len(drv[p].hist), Len(drv[p].hist) + 1}
       /\ drv'[p].pc = "collect" => drv'[p].round = Len(drv'[p].hist) + 1
       /\ \A i \in 1 .. Len(NewEvents(p)) :
            NewEvents(p)[i].ev = "Send"
              => RoundOfTag(args.proto, NewEvents(p)[i].data.tag)
                   = Len(drv'[p].hist) + 1
       /\ drv[p].pc \in {"done", "panic"}
            => (out'[p] = out[p] /\ drv'[p] = drv[p])
       /\ (Failed(p)' /\ ~Failed(p)
             /\ (drv'[p].res # "TransportIssue" \/ tx'[p]))
            => \A i \in 1 .. Len(NewEvents(p)) :
                 NewEvents(p)[i].ev \in {"Log", "Error"}]_vars

FailedInLaterRound ==
  \E p \in procs :
    /\ Failed(p)
    /\ drv[p].res \in {"InvalidData", "ExecutionIssue"}
    /\ drv[p].round >= 2
    /\ Has(p, "Send")
    /\ Has(p, "Error")

\* the rounds of the Sends p has emitted toward t, in emission order
SendRounds(p, t) ==
  LET sends == SelectSeq(out[p], LAMBDA e : e.ev = "Send" /\ e.target = t)
  IN [i \in 1 .. Len(sends) |-> RoundOfTag(args.proto, sends[i].data.tag)]

\* C16: toward every target the Sends of a party carry strictly increasing
\* rounds (so at most one per round and target), every Send has the party as
\* its sender and another party as its target, and a party whose keygen
\* succeeded has sent every peer exactly KeyGenRound1, .., KeyGenRound5.
OneSendPerRoundPerTarget ==
  \A p \in procs :
    /\ \A i \in 1 .. Len(out[p]) :
         out[p][i].ev = "Send"
           => /\ out[p][i].sender = p
              /\ out[p][i].target \in (0 .. (args.participants - 1)) \ {p}
              /\ RoundOfTag(args.proto, out[p][i].data.tag) >= 1
    /\ \A t \in 0 .. (args.participants - 1) :
         /\ \A i, j \in 1 .. Len(SendRounds(p, t)) :
              i < j => SendRounds(p, t)[i] < SendRounds(p, t)[j]
         /\ (args.proto = "keygen" /\ Succeeded(p) /\ t # p)
              => SendRounds(p, t) = <<1, 2, 3, 4, 5>>

KeygenSucceededAfterFiveSends ==
  \E p \in procs :
    /\ args.proto = "keygen"
    /\ Succeeded(p)
    /\ \E t \in 0 .. (args.participants - 1) : Len(SendRounds(p, t)) = 5

\* the poll of p that, collecting sign round 3 (round 9), dequeues a message
\* tagged SignRound9 (SignRound3) from an in-range sender while the consumer
\* of the emitter is still there
MisTaggedScalarStep(p) ==
  /\ args.proto = "sign"
  /\ drv[p].pc = "collect"
  /\ drv[p].round \in {3, 9}
  /\ ~Expired(p)
  /\ ~AllFilled(drv[p].vec)
  /\ inbox[p] # <<>>
  /\ InRange(drv[p].vec, Head(inbox[p]).sender)
  /\ Head(inbox[p]).data.tag = (IF drv[p].round = 3 THEN "SignRound9" ELSE "SignRound3")
  /\ inbox'[p] = Tail(inbox[p])
  /\ tx'[p]

\* C17: sign rounds 3 and 9 are told apart by the tag: a SignRound9 message
\* dequeued while round 3 is collected (a SignRound3 message while round 9 is
\* collected) is not stored as a contribution and ends the session with
\* InvalidData.
ScalarRoundsToldApartByTag ==
  [][\A p \in procs :
       MisTaggedScalarStep(p)
         => /\ drv'[p].vec = drv[p].vec
            /\ drv'[p].pc = "done"
            /\ drv'[p].res = "InvalidData"]_vars

\* the call of p has returned with its outcome on the emitter: Complete and
\* later Quit, or Error
Reported(p) ==
  \/ \E i, j \in 1 .. Len(out[p]) :
       i < j /\ out[p][i].ev = "Complete" /\ out[p][j].ev = "Quit"
  \/ Has(p, "Error")

ReturnedAfterReporting ==
  \A p \in procs : (drv[p].pc = "done" /\ tx[p]) => Reported(p)

\* C18: keygeneration and sign are total: whatever comes in (sender labels
\* >= participants included), the call never panics, and when it has
\* returned with the consumer of the emitter still there it has reported
\* Complete followed by Quit, or Error.
CallsAreTotal ==
  /\ \A p \in procs : drv[p].pc # "panic"
  /\ ReturnedAfterReporting

\* C19: subset signing: the keystore is of n = 3 parties with t = 1, the
\* signers are [0, 1] and each calls sign with participants = 3, threshold
\* = 1 and party_num_id = its position; every Send to a signer is routed and
\* every check holds. Then no signer ends in an error (the safety half of
\* "both signers emit Complete(Sign) followed by Quit").
SubsetSignNoError ==
  args.participants = SubsetN
    => \A p \in procs : ~Failed(p) /\ drv[p].pc # "panic" /\ ~Has(p, "Error")

\* the step in which t, collecting with an empty slot, dequeues the next
\* Send of s
RoutedStep(s, t) ==
  /\ s # t
  /\ Pending(s, t)
  /\ drv[t].pc = "collect"
  /\ ~AllFilled(drv[t].vec)
  /\ net'[s][t] = net[s][t] + 1

\* C20: among honest parties over a transport that is FIFO per sender and
\* destination, a message a party dequeues while its round-r buffer has an
\* empty slot carries the round-r tag, and the dequeue does not end the
\* collection with InvalidData.
DequeuedTagIsOfCurrentRound ==
  [][\A s \in procs, t \in procs :
       RoutedStep(s, t)
         => /\ SendsTo(s, t)[net[s][t] + 1].data.tag
                 = Tags(args.proto)[drv[t].round]
            /\ drv'[t].res # "InvalidData"]_vars

\* party_shares of p once its round 3 has returned
PartySharesOf(p) ==
  PartyShares(p, args.participants, EncKeys(p, drv[p].hist[2]),
              Remove(drv[p].hist[3], p))

\* C21: keygen among honest parties: the KeyGenRound3 ciphertext party i
\* sends to target j is i's secret share for j under the key of y_j and u_i;
\* once round 3 of j has returned, party_shares of j has n entries, the one
\* at i is that share, and the one at j is j's own share and not a
\* decryption of the placeholder AEAD.
SharesFollowRound3Indices ==
  \A i \in procs :
    /\ \A k \in 1 .. Len(out[i]) :
         (out[i][k].ev = "Send" /\ out[i][k].data.tag = "KeyGenRound3")
           => /\ out[i][k].target # i
              /\ out[i][k].data.body
                   = aes_encrypt(DhKey(Y(out[i][k].target), U(i)),
                                 SecretShare(i, out[i][k].target))
    /\ Len(drv[i].hist) >= 3
         => /\ Len(PartySharesOf(i)) = args.participants
            /\ \A j \in 0 .. (args.participants - 1) :
                 At(PartySharesOf(i), j) = SecretShare(j, i)
            /\ At(drv[i].hist[3], i) = DefaultAEAD
            /\ Len(Remove(drv[i].hist[3], i)) = args.participants - 1
            /\ \A j \in 0 .. (args.participants - 2) :
                 At(Remove(drv[i].hist[3], i), j) # DefaultAEAD

AllPassedRound3 ==
  \A p \in procs : Len(drv[p].hist) >= 3 /\ HasComplete(p, "KeyGen")

(***************************************************************************)
(* SpecSign: signer SignMe of a sign session of SignN signers (threshold = *)
(* SignN - 1) over a keystore of SignKeystoreN parties, with a signers_vec *)
(* that is not the identity and reaches beyond the signers; its peers run  *)
(* the same driver and their messages come in FIFO per peer.               *)
(***************************************************************************)
\* signers_vec = [SignKeystoreN - 1, SignN - 2, .., 0]
LastFirstSigners ==
  [k \in 1 .. SignN |-> IF k = 1 THEN SignKeystoreN - 1 ELSE SignN - k]

InitSign ==
  InitOf([SessionArgs("sign", SignN, SignN - 1) EXCEPT
            !.signers_vec = LastFirstSigners, !.keystore_n = SignKeystoreN],
         {SignMe}, MaxFaults, TRUE)

NextSign ==
  \/ Start(Me)
  \/ PollTimeout(Me)
  \/ PollFull(Me)
  \/ PollEmpty(Me)
  \/ PollRecv(Me)
  \/ \E q \in Peers : EnvSend(q)

SpecSign == InitSign /\ [][NextSign]_vars

\* C22: sign round 2: the SignRound2 unicast to position i carries the
\* B-messages built from the MessageA of round-1 slot i under the Paillier
\* key of signers_vec[i]; positions are 0..threshold without the own one, in
\* ascending order; the B-messages of honest peers collected in round-2 slot
\* i pass the checks made at cursor j for signers_vec[i], so no MtA check
\* fails among honest signers.
Round2FollowsCursorPairing ==
  \A p \in procs :
    LET sends == SelectSeq(out[p], LAMBDA e :
                   e.ev = "Send" /\ e.data.tag = "SignRound2")
    IN /\ \A k \in 1 .. Len(sends) :
            /\ sends[k].target = (IF k - 1 < p THEN k - 1 ELSE k)
            /\ Cursor(p, sends[k].target) = k - 1
            /\ sends[k].data.body
                 = MessageB(p, args, At(args.signers_vec, sends[k].target),
                            At(drv[p].hist[1], sends[k].target))
            /\ sends[k].data.body
                 = Body(At(args.signers_vec, p),
                        At(args.signers_vec, sends[k].target),
                        At(args.signers_vec, sends[k].target), TRUE)
       /\ drv[p].res # "ExecutionIssue"
       /\ Len(drv[p].hist) >= 2
            => \A i \in (0 .. args.threshold) \ {p} :
                 /\ AlphaVerify(p, args, At(drv[p].hist[2], i))
                 /\ At(drv[p].hist[2], i).src = At(args.signers_vec, i)
                 /\ At(Remove(drv[p].hist[2], p), Cursor(p, i))
                      = At(drv[p].hist[2], i)

MiddleSignerPassedMta ==
  \E p \in procs :
    /\ 0 < p /\ p < args.threshold
    /\ args.signers_vec # FirstSigners(args.threshold)
    /\ Len(drv[p].hist) >= 3
    /\ Len(SelectSeq(out[p], LAMBDA e : e.ev = "Send" /\ e.data.tag = "SignRound2"))
         = SignN - 1

(***************************************************************************)
(* SpecArgs: keygeneration or sign called with participants = ArgsN and    *)
(* any party_id of 0 .. ArgsMaxId (party_id >= participants included); the *)
(* peers run the same driver and the consumer of the emitter may go away.  *)
(***************************************************************************)
InitArgs ==
  \E proto \in {"keygen", "sign"}, me \in 0 .. ArgsMaxId :
    InitOf(SessionArgs(proto, ArgsN, 1), {me}, 0, TRUE)

NextArgs ==
  \/ Start(Me)
  \/ PollTimeout(Me)
  \/ PollFull(Me)
  \/ PollEmpty(Me)
  \/ PollRecv(Me)
  \/ \E q \in Peers : EnvSend(q)

SpecArgs == InitArgs /\ [][NextArgs]_vars

\* the tags of the rounds whose message goes out through broadcast
BroadcastTags == (AllTags \ {"None", "KeyGenRound3", "SignRound2"})

\* the Sends with the tag that the step puts on the emitter of p
NewSends(p, tag) ==
  SelectSeq(NewEvents(p), LAMBDA e : e.ev = "Send" /\ e.data.tag = tag)

\* the Sends of a broadcast are to the targets other than party_id in
\* ascending order, from party_id, all with the same data, and stop short
\* only at a failed send, which ends the call with TransportIssue
BroadcastShape(p, sends) ==
  /\ \A k \in 1 .. Len(sends) :
       /\ sends[k].sender = p
       /\ sends[k].target # p
       /\ sends[k].data = sends[1].data
       /\ sends[k].target = (IF k - 1 < p THEN k - 1 ELSE k)
       /\ sends[k].target < args.participants
  /\ (tx'[p] /\ sends # <<>>)
       => \A t \in (0 .. (args.participants - 1)) \ {p} :
            \E k \in 1 .. Len(sends) : sends[k].target = t
  /\ (~tx'[p] /\ sends # <<>>)
       => drv'[p].pc = "done" /\ drv'[p].res = "TransportIssue"

BroadcastToOthersInOrder ==
  [][\A p \in procs : \A tag \in BroadcastTags :
       BroadcastShape(p, NewSends(p, tag))]_vars

\* C23: a broadcast emits exactly participants - 1 Sends, one for every
\* target other than party_id in ascending order, each from party_id with
\* the same data, none to the sender itself; a failed send ends it with
\* TransportIssue and nothing is sent to the remaining targets.
BroadcastEmitsAllButOne ==
  [][\A p \in procs : \A tag \in BroadcastTags :
       /\ BroadcastShape(p, NewSends(p, tag))
       /\ (tx'[p] /\ NewSends(p, tag) # <<>>)
            => Len(NewSends(p, tag)) = args.participants - 1]_vars

(***************************************************************************)
(* SpecForge: one party of a keygen session of MaxN participants; its      *)
(* peers send their round messages, and once a KeyGenRound1 message comes  *)
(* in under any sender label of the session that repeats that party's      *)
(* commitment with another Paillier key and the key's own proof.           *)
(***************************************************************************)
\* KeyGenBroadcastMessage1 { e: another key, com: q's, correct_key_proof: of e }
OtherKeyBc(q) == [KgBc(q) EXCEPT !.val = 1]

EnvForge(sender) ==
  /\ drv[Me].pc = "collect"
  /\ drv[Me].round = 1
  /\ rx[Me]
  /\ FaultsLeft
  /\ Len(inbox[Me]) < MaxInbox
  /\ inbox' = [inbox EXCEPT ![Me] =
       Append(@, Incoming(sender, Me, Data("KeyGenRound1", OtherKeyBc(sender))))]
  /\ env' = [env EXCEPT !.faults = @ + 1]
  /\ UNCHANGED <<args, procs, drv, rx, out, tx, net>>

InitForge ==
  \E me \in 0 .. (MaxN - 1) :
    InitOf(SessionArgs("keygen", MaxN, 1), {me}, 0, TRUE)

NextForge ==
  \/ Start(Me)
  \/ PollTimeout(Me)
  \/ PollFull(Me)
  \/ PollEmpty(Me)
  \/ PollRecv(Me)
  \/ \E q \in Peers : EnvSend(q)
  \/ \E sender \in 0 .. (args.participants - 1) : EnvForge(sender)

SpecForge == InitForge /\ [][NextForge]_vars

\* public_key, party_index, params and the lengths of the two vectors of the
\* Complete(KeyGen) event e of party p, and the peers' elements
CompleteKeyGenShape(p, e) ==
  LET ks == e.data.body.private_key
  IN /\ e.data.body.public_key = ks.y_sum
     /\ ks.party_index = p
     /\ ks.params = <<args.threshold, args.participants>>
     /\ Len(ks.vss_scheme_vec) = args.participants
     /\ Len(ks.paillier_key_vec) = args.participants
     /\ \A i \in (0 .. (args.participants - 1)) \ {p} :
          /\ At(ks.vss_scheme_vec, i) = At(drv[p].hist[4], i)
          /\ At(ks.paillier_key_vec, i) = At(drv[p].hist[1], i)
          /\ At(ks.vss_scheme_vec, i).src = i
          /\ At(ks.paillier_key_vec, i).src = i

CompleteKeyGenShapeHolds ==
  \A p \in procs : \A k \in 1 .. Len(out[p]) :
    (out[p][k].ev = "Complete" /\ out[p][k].data.tag = "KeyGen")
      => CompleteKeyGenShape(p, out[p][k])

\* C24: the Complete(KeyGen) event of a party carries public_key = the
\* y_sum of its keystore, party_index = party_id, params = (threshold,
\* participants), and vss_scheme_vec and paillier_key_vec of length n with
\* at i what the party labelled i sent in round 4 and round 1, the party's
\* own values at its own index.
CompleteKeyGenCarriesKeystore ==
  \A p \in procs : \A k \in 1 .. Len(out[p]) :
    (out[p][k].ev = "Complete" /\ out[p][k].data.tag = "KeyGen")
      => /\ CompleteKeyGenShape(p, out[p][k])
         /\ At(out[p][k].data.body.private_key.vss_scheme_vec, p) = KgVss(p)
         /\ At(out[p][k].data.body.private_key.paillier_key_vec, p) = KgBc(p)

\* C25: a failed send on the emitter (the consumer has gone away) ends the
\* driver at once: the call returns in that very step with TransportIssue
\* (or with the failure being reported, when the failed send is the
\* wrapper's Log or Error), neither Quit nor Error was delivered, at most
\* the round that had just returned is recorded, and nothing is emitted and
\* no step is taken afterwards.
SendFailureStopsDriver ==
  [][\A p \in procs :
       /\ (tx[p] /\ ~tx'[p])
            => /\ drv'[p].pc = "done"
               /\ drv'[p].res \in ErrorKinds
               /\ drv'[p].res # "TransportIssue"
                    => \A i \in 1 .. Len(NewEvents(p)) :
                         NewEvents(p)[i].ev \in {"Log"}
               /\ Len(drv'[p].hist) <= Len(drv[p].hist) + 1
               /\ \A i \in 1 .. Len(out'[p]) : out'[p][i].ev \notin {"Quit", "Error"}
       /\ ~tx[p]
            => /\ drv[p].pc = "done"
               /\ drv'[p] = drv[p]
               /\ out'[p] = out[p]
               /\ ~tx'[p]]_vars

SendFailedAfterSends ==
  \E p \in procs :
    /\ ~tx[p]
    /\ drv[p].res = "TransportIssue"
    /\ drv[p].round >= 2
    /\ Has(p, "Send")
    /\ ~Has(p, "Complete")

(***************************************************************************)
(* SpecTags: one party of a keygen or sign session of MaxN participants;   *)
(* its peers send their round messages, and once a message of any variant  *)
(* of MessageData comes in from a peer, whatever the round.                *)
(***************************************************************************)
\* enum MessageData: the payload type of each variant
PayloadType(tag) ==
  CASE tag = "KeyGenRound1" -> "KeyGenBroadcastMessage1"
    [] tag = "KeyGenRound2" -> "KeyGenDecommitMessage1"
    [] tag = "KeyGenRound3" -> "AEAD"
    [] tag = "KeyGenRound4" -> "VerifiableSS"
    [] tag = "KeyGenRound5" -> "DLogProof"
    [] tag = "SignRound1" -> "SignRound1Data"
    [] tag = "SignRound2" -> "SignRound2Data"
    [] tag = "SignRound3" -> "FE"
    [] tag = "SignRound4" -> "SignDecommitPhase1"
    [] tag = "SignRound5" -> "Phase5Com1"
    [] tag = "SignRound6" -> "SignRound6Data"
    [] tag = "SignRound7" -> "Phase5Com2"
    [] tag = "SignRound8" -> "Phase5DDecom2"
    [] tag = "SignRound9" -> "FE"
    [] OTHER -> "unit"

EnvTagged(sender, tag) ==
  /\ drv[Me].pc = "collect"
  /\ rx[Me]
  /\ FaultsLeft
  /\ Len(inbox[Me]) < MaxInbox
  /\ inbox' = [inbox EXCEPT ![Me] =
       Append(@, Incoming(sender, Me, FaultData(sender, Me, args, tag, TRUE)))]
  /\ env' = [env EXCEPT !.faults = @ + 1]
  /\ UNCHANGED <<args, procs, drv, rx, out, tx, net>>

InitTags ==
  \E proto \in {"keygen", "sign"}, me \in 0 .. (MaxN - 1) :
    InitOf(SessionArgs(proto, MaxN, 1), {me}, 0, TRUE)

NextTags ==
  \/ Start(Me)
  \/ PollTimeout(Me)
  \/ PollFull(Me)
  \/ PollEmpty(Me)
  \/ PollRecv(Me)
  \/ \E q \in Peers : EnvSend(q)
  \/ \E sender \in Peers, tag \in AllTags : EnvTagged(sender, tag)

SpecTags == InitTags /\ [][NextTags]_vars

AllTypes == {PayloadType(tag) : tag \in AllTags \ {"None"}}

\* bodies to wrap: get_from_data moves the payload and does not look into it
SampleBodies == {Body(0, -1, 0, TRUE), Body(1, 0, 9, FALSE)}

\* the projection of every variant to every type, and the round trip
TagTableExact ==
  /\ \A T \in AllTypes, tag \in AllTags, b \in SampleBodies :
       get_from_data(T, Data(tag, b))
         = (IF PayloadType(tag) = T THEN Some(b) ELSE None)
  /\ \A T \in AllTypes : get_from_data(T, NoData) = None
  /\ \A tag \in AllTags \ {"None"}, b \in SampleBodies :
       Unwrap(get_from_data(PayloadType(tag), Data(tag, b))) = b

\* the poll of p that dequeues a message from an in-range sender with the
\* consumer of the emitter still there
ProjectStep(p) ==
  /\ drv[p].pc = "collect"
  /\ ~Expired(p)
  /\ ~AllFilled(drv[p].vec)
  /\ inbox[p] # <<>>
  /\ InRange(drv[p].vec, Head(inbox[p]).sender)
  /\ inbox'[p] = Tail(inbox[p])
  /\ tx'[p]

\* C26: T::get_from_data returns Some(body) exactly for the variants whose
\* payload type is T (one variant per type, SignRound3 and SignRound9 for
\* FE) and None for every other variant, MessageData::None included;
\* projecting a body wrapped in its tag gives the body back; and the
\* collector stores a dequeued message exactly when its variant's payload
\* type is the round's T, failing with InvalidData otherwise.
ProjectionFollowsTagTable ==
  [][/\ TagTableExact
     /\ \A p \in procs :
          ProjectStep(p)
            => LET m == Head(inbox[p])
               IN IF PayloadType(m.data.tag) = Types(args.proto)[drv[p].round]
                    THEN /\ drv'[p].pc = "collect"
                         /\ drv'[p].vec
                              = SetAt(drv[p].vec, m.sender, Some(m.data.body))
                  ELSE /\ drv'[p].pc = "done"
                       /\ drv'[p].res = "InvalidData"
                       /\ drv'[p].vec = drv[p].vec]_vars

\* a signer collecting round 3 holds a peer's body that came as SignRound9
ScalarOfRound9StoredInRound3 ==
  \E p \in procs, q \in 0 .. (MaxN - 1) :
    /\ args.proto = "sign"
    /\ drv[p].pc = "collect"
    /\ drv[p].round = 3
    /\ q # p
    /\ IsSome(At(drv[p].vec, q))
    /\ Unwrap(At(drv[p].vec, q)) = SgScalar(q, args, 9)

\* the number of events of kind ev on the emitter of p
CountOf(p, ev) == Len(SelectSeq(out[p], LAMBDA e : e.ev = ev))

\* C27: the emitter of a session never carries both a Complete and an
\* Error: at most one Complete, at most one Error, and no Error once a
\* Complete is there (a consumer that refused a send takes nothing more).
CompleteExcludesError ==
  \A p \in procs :
    /\ CountOf(p, "Complete") <= 1
    /\ CountOf(p, "Error") <= 1
    /\ CountOf(p, "Complete") + CountOf(p, "Error") <= 1

CompleteThenQuitRefused ==
  \E p \in procs :
    /\ Has(p, "Complete")
    /\ ~Has(p, "Quit")
    /\ drv[p].pc = "done"
    /\ drv[p].res = "TransportIssue"

\* s is a prefix of t
IsPrefix(s, t) == Len(s) <= Len(t) /\ SubSeq(t, 1, Len(s)) = s

\* C28: once every slot of a round is filled the collector dequeues nothing
\* more: what is queued stays queued, in order, when the round returns, and
\* since a dequeue only ever takes the head of the queue, those messages are
\* the first ones the next round's collection sees.
FilledRoundDequeuesNothing ==
  [][\A p \in procs :
       /\ (drv[p].pc = "collect" /\ AllFilled(drv[p].vec))
            => IsPrefix(inbox[p], inbox'[p])
       /\ ReturnStep(p) => inbox'[p] = inbox[p]
       /\ ~IsPrefix(inbox[p], inbox'[p])
            => /\ inbox[p] # <<>>
               /\ inbox'[p] = Tail(inbox[p])
               /\ drv[p].pc = "collect"
               /\ ~AllFilled(drv[p].vec)]_vars

RoundEnteredWithQueuedMessages ==
  \E p \in procs :
    /\ drv[p].pc = "collect"
    /\ drv[p].round >= 2
    /\ drv[p].timeout = CollectBudget
    /\ Len(inbox[p]) = MaxInbox

(***************************************************************************)
(* SpecWide: one party of a sign session in which all SubsetN parties of   *)
(* the keystore sign (signers_vec = [0, .., SubsetN - 1], participants =   *)
(* SubsetN) with threshold SubsetT; its peers run the same driver.         *)
(***************************************************************************)
\* what peer q, running safe_sign, sends to Me: round 1 to everybody, round
\* 2 to the positions 0..=threshold only, round 3 if its own round 2 can be
\* completed, that is if its position is one of 0..=threshold
EnvSignSend(q) ==
  /\ env.sent[q] < (IF q <= args.threshold THEN 3 ELSE 2)
  /\ IF env.sent[q] = 1 /\ Me > args.threshold
       THEN /\ Running(Me)
            /\ env' = [env EXCEPT !.sent[q] = @ + 1]
            /\ UNCHANGED <<args, procs, drv, inbox, rx, out, tx, net>>
     ELSE EnvSend(q)

InitWide ==
  \E me \in 0 .. (SubsetN - 1) :
    InitOf([SessionArgs("sign", SubsetN, SubsetT) EXCEPT
              !.signers_vec = FirstSigners(SubsetN - 1)],
           {me}, MaxFaults, TRUE)

NextWide ==
  \/ Start(Me)
  \/ PollTimeout(Me)
  \/ PollFull(Me)
  \/ PollEmpty(Me)
  \/ PollRecv(Me)
  \/ \E q \in Peers : EnvSignSend(q)

SpecWide == InitWide /\ [][NextWide]_vars

\* the positions p has unicast a SignRound2 to
Round2Targets(p) ==
  {out[p][k].target : k \in {i \in 1 .. Len(out[p]) :
      out[p][i].ev = "Send" /\ out[p][i].data.tag = "SignRound2"}}

\* C29: in sign round 2 the positions a party unicasts SignRound2 to are the
\* positions whose slots its round-2 collection waits for: every position
\* of [0, participants) but its own.
Round2TargetsAreSlotsAwaited ==
  \A p \in procs :
    (args.proto = "sign" /\ drv[p].pc = "collect" /\ drv[p].round = 2)
      => /\ Round2Targets(p) = {i \in 0 .. (Len(drv[p].vec) - 1) : i # p}
         /\ Round2Targets(p) = (0 .. (args.participants - 1)) \ {p}

(***************************************************************************)
(* SpecLoop: one party of a keygen session of 2 .. LoopN participants, at  *)
(* the first or the last position, with the round-1 message of every peer  *)
(* queued before it starts; nothing else arrives.  The first call of       *)
(* collect_round finds its peer messages in the channel, the second finds  *)
(* the channel empty.                                                      *)
(***************************************************************************)
\* the round-1 messages of the peers of me, by ascending sender
QueuedRound1(a, me) ==
  [k \in 1 .. (a.participants - 1) |->
     LET q == IF k - 1 < me THEN k - 1 ELSE k
     IN Incoming(q, me, Data(Tags(a.proto)[1], PeerBody(q, me, a, 1)))]

InitLoop ==
  \E n \in 2 .. LoopN :
    \E me \in {0, n - 1} :
      LET a == SessionArgs("keygen", n, 1)
      IN /\ args = a
         /\ procs = {me}
         /\ drv = [p \in {me} |-> InitLocal]
         /\ inbox = [p \in {me} |-> QueuedRound1(a, me)]
         /\ rx = [p \in {me} |-> TRUE]
         /\ out = [p \in {me} |-> <<>>]
         /\ tx = [p \in {me} |-> TRUE]
         /\ net = [s \in {me} |-> [t \in {me} |-> 0]]
         /\ env = [faults |-> MaxFaults, logs |-> TRUE,
                   sent |-> [q \in 0 .. (n - 1) |-> IF q = me THEN 0 ELSE 1]]

NextLoop ==
  \/ Start(Me)
  \/ PollTimeout(Me)
  \/ PollFull(Me)
  \/ PollEmpty(Me)
  \/ PollRecv(Me)

SpecLoop == InitLoop /\ [][NextLoop]_vars

\* the number of the loop iteration the next step of the running call of
\* collect_round belongs to
Iteration(p) == ((CollectBudget - drv[p].timeout) \div PollQuantum) + 1

\* the slots of peers that are filled
FilledPeers(p) ==
  Cardinality({i \in 1 .. Len(drv[p].vec) : i # p + 1 /\ IsSome(drv[p].vec[i])})

\* a step of the collect loop of p
LoopStep(p) == drv[p].pc = "collect" /\ drv'[p] # drv[p]

\* every step of a call of collect_round belongs to one of its first 30
\* iterations; only the first 29 take a message off the channel, one each,
\* or return the vector, and the vector is returned with every slot filled;
\* the 30th ends the call
LoopStepInBudget(p) ==
  LoopStep(p)
    => /\ Iteration(p) <= 30
       /\ Len(inbox'[p]) >= Len(inbox[p]) - 1
       /\ Len(inbox'[p]) < Len(inbox[p]) => Iteration(p) <= 29
       /\ Len(drv'[p].hist) > Len(drv[p].hist)
            => (Iteration(p) <= 29 /\ AllFilled(drv[p].vec))
       /\ Iteration(p) = 30 => drv'[p].pc # "collect"

\* C30: collect_round ends within 30 loop iterations, takes at most one
\* message off the channel per iteration and at most 29 in all, and returns
\* the vector only when every slot is filled before the 30th iteration; so
\* with at most 29 participants a round whose peer messages are all queued
\* when collection starts succeeds.
CollectEndsWithinBudget ==
  /\ [][\A p \in procs : LoopStepInBudget(p)]_vars
  /\ [](\A p \in procs :
          /\ drv[p].pc = "collect" => Iteration(p) <= 30
          /\ drv[p].round = 1
               => (args.participants - 1) - Len(inbox[p]) <= 29
          /\ (drv[p].round = 1 /\ args.participants <= 29)
               => (drv[p].res # "Timeout" /\ FilledPeers(p) = Iteration(p) - 1))

\* a party of 29 has taken its 28 queued peer messages in 28 iterations and
\* got the vector back in the 29th
FullRoundOfTwentyNine ==
  \E p \in procs :
    /\ args.participants = 29
    /\ Len(drv[p].hist) = 1
    /\ Len(drv[p].hist[1]) = 29
    /\ inbox[p] = <<>>
    /\ drv[p].round = 2

=============================================================================
